---- MODULE Spec2Model ----
(***************************************************************************)
(* Stratum Observability: the service facade (StratumService), its         *)
(* Injector (plugin map, event-type dispatch table, A/B test manager),     *)
(* and the publish pipeline: target resolution, publisher filtering,       *)
(* snapshot generation, listener delivery and the microtask-per-publisher  *)
(* fan-out aggregated by Promise.all.                                      *)
(*                                                                         *)
(* One step of the model is one synchronous run of JavaScript: an          *)
(* application call, one queued microtask, or the continuation that runs   *)
(* when a publisher's promise settles.  The reactions of Promise.all and   *)
(* of its then/catch run in the microtask ticks that directly follow the   *)
(* settling continuation and touch nothing else, so they are folded into   *)
(* that step.                                                              *)
(***************************************************************************)
EXTENDS Integers, Sequences, FiniteSets, TLC

(***************************************************************************)
(* Bounds of the model.                                                    *)
(***************************************************************************)
MaxCalls == 2
MaxAbTests == 1
MaxListeners == 1

(***************************************************************************)
(* JavaScript values.                                                      *)
(***************************************************************************)
Undefined == "undefined"
EmptyObject == [k \in {} |-> Undefined]
None == [isDefined |-> FALSE]
Some(v) == [isDefined |-> TRUE, value |-> v]

\* Names every object literal `{}` inherits from Object.prototype: a property
\* read `obj[name]` or a test `name in obj` finds them on an empty object.
ObjectPrototypeKeys == {"constructor"}

\* The value such an inherited name reads as (a function: truthy, and without
\* any of the fields of a registered catalog).
InheritedMember == [kind |-> "inherited"]

\* obj[name] on an object literal holding the own properties `own`.
PropertyRead(own, name) ==
  IF name \in DOMAIN own THEN [kind |-> "own", value |-> own[name]]
  ELSE IF name \in ObjectPrototypeKeys THEN InheritedMember
  ELSE [kind |-> "undefined"]

\* Reading a key of a plain data object: a missing key reads as undefined.
Read(obj, k) == IF k \in DOMAIN obj THEN obj[k] ELSE Undefined

Assign(obj, k, v) == [f \in DOMAIN obj \cup {k} |-> IF f = k THEN v ELSE obj[f]]
Delete(obj, k) == [f \in DOMAIN obj \ {k} |-> obj[f]]

RECURSIVE SeqFilter(_, _)
SeqFilter(s, keep) ==
  IF s = <<>> THEN <<>>
  ELSE (IF Head(s) \in keep THEN <<Head(s)>> ELSE <<>>) \o SeqFilter(Tail(s), keep)

Range(s) == {s[i] : i \in DOMAIN s}

(***************************************************************************)
(* Event model classes.  Every model class extends BaseEventModel, so an   *)
(* instance of AModel is also an instance of BaseEventModel.               *)
(***************************************************************************)
ModelClasses == {"BaseEventModel", "AModel", "BModel", "CModel", "DModel"}
InstanceOf(cls, listed) == cls = listed \/ listed = "BaseEventModel"

(***************************************************************************)
(* The plugins and publishers the application constructs.                  *)
(***************************************************************************)
PluginA ==
  [name |-> "pluginA",
   eventTypes |-> <<[eventType |-> "a", model |-> "AModel"]>>,
   publishers |-> <<"pubA">>,
   context |-> Some([var1 |-> "default", var2 |-> Undefined]),
   useGlobalContextPrefix |-> TRUE]

PluginB ==
  [name |-> "pluginB",
   eventTypes |-> <<[eventType |-> "b", model |-> "BModel"]>>,
   publishers |-> <<"pubB">>,
   context |-> None,
   useGlobalContextPrefix |-> TRUE]

\* A plugin registered at run time: collides on 'a' and on the built-in 'base',
\* and declares two event types nobody registered, 'c' and 'constructor'.
\* Its publisher pubE is constructed with an explicit accept-list.
PluginC ==
  [name |-> "pluginC",
   eventTypes |-> <<[eventType |-> "a", model |-> "CModel"],
                    [eventType |-> "base", model |-> "CModel"],
                    [eventType |-> "c", model |-> "CModel"],
                    [eventType |-> "constructor", model |-> "CModel"]>>,
   publishers |-> <<"pubD", "pubE">>,
   context |-> None,
   useGlobalContextPrefix |-> TRUE]

\* A plugin whose every mapping collides.
PluginD ==
  [name |-> "pluginD",
   eventTypes |-> <<[eventType |-> "a", model |-> "DModel"]>>,
   publishers |-> <<"pubF">>,
   context |-> None,
   useGlobalContextPrefix |-> TRUE]

\* A second plugin under the name of PluginA, and a plugin without a name.
PluginA2 ==
  [name |-> "pluginA",
   eventTypes |-> <<[eventType |-> "d", model |-> "DModel"]>>,
   publishers |-> <<"pubG">>,
   context |-> None,
   useGlobalContextPrefix |-> TRUE]

PluginNameless == [PluginA2 EXCEPT !.name = ""]

AllPublishers == {"pubA", "pubB", "pubC", "pubD", "pubE", "pubF", "pubG"}
PluginNames == {"pluginA", "pluginB"}
ContextValues == {"default", "123"}
ContextKeys == {"var1", "var3"}

\* A publisher object as constructed, before any registration.
NewPublisher == [id |-> 0, pluginName |-> Undefined, acceptedEventModels |-> None]

VARIABLES
  catalogs,           \* StratumService.catalogs: catalog id -> registered catalog
  defaultCatalog,     \* StratumService.defaultCatalog: Some(catalog id) or None
  publishers,         \* StratumService.publishers: the ordered publisher list
  publisherObjs,      \* the publisher objects: id, pluginName, acceptedEventModels
  uniqueId,           \* Injector's counter for publisher ids
  plugins,            \* Injector.plugins: plugin name -> plugin (with its context)
  eventTypeModelMap,  \* Injector.eventTypeModelMap: event type -> model class
  tests,              \* AbTestManager._tests, in insertion order
  n,                  \* AbTestManager.n, the static id counter
  registeredEventIds, \* Injector.registeredEventIds: catalog id -> registered entry ids
  listeners,          \* globalThis listener arrays: global and product-scoped
  calls,              \* the publish calls made so far, with their tasks
  microtasks,         \* the microtask queue (FIFO)
  sessionStorage,     \* window.sessionStorage: key -> Some(string), or None
  last                \* the last registry call: its input, result and the state before

vars == <<catalogs, defaultCatalog, publishers, publisherObjs, uniqueId, plugins,
          eventTypeModelMap, registeredEventIds, tests, n, listeners, calls, microtasks,
          sessionStorage, last>>


(***************************************************************************)
(* Injector.registerPlugin and StratumService.addPlugin / addPublisher.    *)
(* The service state they work on is passed as a record svc with the       *)
(* fields publishers, publisherObjs, uniqueId, plugins, eventTypeModelMap. *)
(***************************************************************************)

\* `name in obj` for an object literal: own or inherited.
HasProperty(own, name) == name \in DOMAIN own \/ name \in ObjectPrototypeKeys

\* The for..of loop over plugin.eventTypes: a colliding type is dropped, the
\* others are added and their model classes collected.
RECURSIVE RegisterEventTypes(_, _, _)
RegisterEventTypes(map, pluginName, eventTypes) ==
  IF eventTypes = <<>> THEN [map |-> map, accepted |-> <<>>]
  ELSE LET e == Head(eventTypes)
           dup == HasProperty(map, e.eventType)
           map1 == IF dup THEN map
                   ELSE Assign(map, e.eventType, [pluginName |-> pluginName, model |-> e.model])
           rest == RegisterEventTypes(map1, pluginName, Tail(eventTypes))
       IN [map |-> rest.map,
           accepted |-> (IF dup THEN <<>> ELSE <<e.model>>) \o rest.accepted]

\* Stamp the plugin's publishers: default accept-list and owning plugin name.
StampPublishersOverriding(objs, pubs, pluginName, accepted) ==
  [p \in DOMAIN objs |->
     IF p \in Range(pubs)
       THEN [objs[p] EXCEPT !.acceptedEventModels = Some(accepted), !.pluginName = pluginName]
       ELSE objs[p]]
StampPublishers(objs, pubs, pluginName, accepted) ==
  [p \in DOMAIN objs |->
     IF p \in Range(pubs)
       THEN [objs[p] EXCEPT
               !.acceptedEventModels =
                  IF objs[p].acceptedEventModels.isDefined
                    THEN objs[p].acceptedEventModels ELSE Some(accepted),
               !.pluginName = pluginName]
       ELSE objs[p]]

registerPluginWithoutNameCheck(svc, plugin) ==
  LET reg == RegisterEventTypes(svc.eventTypeModelMap, plugin.name, plugin.eventTypes)
  IN [svc |-> [svc EXCEPT
                 !.plugins = Assign(svc.plugins, plugin.name, plugin),
                 !.eventTypeModelMap = reg.map,
                 !.publisherObjs = StampPublishers(svc.publisherObjs, plugin.publishers,
                                                   plugin.name, reg.accepted)],
      publishers |-> plugin.publishers]
registerPlugin(svc, plugin) ==
  IF plugin.name = "" \/ HasProperty(svc.plugins, plugin.name)
    THEN [svc |-> svc, publishers |-> <<>>]
    ELSE LET reg == RegisterEventTypes(svc.eventTypeModelMap, plugin.name, plugin.eventTypes)
         IN [svc |-> [svc EXCEPT
                        !.plugins = Assign(svc.plugins, plugin.name, plugin),
                        !.eventTypeModelMap = reg.map,
                        !.publisherObjs = StampPublishers(svc.publisherObjs, plugin.publishers,
                                                          plugin.name, reg.accepted)],
             publishers |-> plugin.publishers]

\* Injector.getUniqueId: the next publisher id (the first id handed out is 1).
getUniqueId(svc) == svc.uniqueId + 1

\* BasePublisherModel.initialize: the id is set once; addPublisher then pushes.
addPublisher(svc, p) ==
  [svc EXCEPT
     !.uniqueId = getUniqueId(svc),
     !.publisherObjs = [svc.publisherObjs EXCEPT
                          ![p].id = IF @ # 0 THEN @ ELSE getUniqueId(svc)],
     !.publishers = Append(svc.publishers, p)]

\* publishers.findIndex((publisher) => publisher.id === id), 0 for -1
RECURSIVE findIndex(_, _, _)
findIndex(pubs, objs, id) ==
  IF pubs = <<>> THEN 0
  ELSE IF objs[Head(pubs)].id = id THEN 1
  ELSE LET rest == findIndex(Tail(pubs), objs, id)
       IN IF rest = 0 THEN 0 ELSE rest + 1

\* publishers.splice(index, 1)
splice(pubs, index) == [i \in 1..(Len(pubs) - 1) |-> IF i < index THEN pubs[i] ELSE pubs[i + 1]]

\* A number given where a publisher may be given: [num |-> the number];
\* a publisher instance: [pub |-> its name].
NumberKey(v) == [num |-> v]
InstanceKey(p) == [pub |-> p]

\* StratumService.removePublisher(obj): the publisher list afterwards
removePublisher(pubs, objs, obj) ==
  LET id == IF "num" \in DOMAIN obj THEN obj.num ELSE objs[obj.pub].id
      index == findIndex(pubs, objs, id)
  IN IF index = 0 THEN pubs ELSE splice(pubs, index)

RECURSIVE AddPublishers(_, _)
AddPublishers(svc, pubs) ==
  IF pubs = <<>> THEN svc ELSE AddPublishers(addPublisher(svc, Head(pubs)), Tail(pubs))

RECURSIVE addPlugin(_, _)
addPlugin(svc, pluginList) ==
  IF pluginList = <<>> THEN svc
  ELSE LET r == registerPlugin(svc, Head(pluginList))
       IN addPlugin(AddPublishers(r.svc, r.publishers), Tail(pluginList))

\* The onRegister invocations of one addPlugin call, in order: for each plugin
\* of the list, after registerPlugin and after its returned publishers were
\* pushed, plugin.onRegister(this.injector).  Each records the position of
\* the plugin in the list and the publisher list at the time of the hook.
RECURSIVE onRegisterCalls(_, _, _)
onRegisterCalls(svc, pluginList, index) ==
  IF pluginList = <<>> THEN <<>>
  ELSE LET r == registerPlugin(svc, Head(pluginList))
           after == AddPublishers(r.svc, r.publishers)
       IN <<[index |-> index, plugin |-> Head(pluginList).name,
             publishersAtHook |-> after.publishers]>>
            \o onRegisterCalls(after, Tail(pluginList), index + 1)

\* BasePublisher.shouldPublishEvent
shouldPublishEventAcceptsAll(pub, event) == TRUE
shouldPublishEvent(pub, event) ==
  IF pub.acceptedEventModels.isDefined
    THEN \E i \in DOMAIN pub.acceptedEventModels.value :
           InstanceOf(event.cls, pub.acceptedEventModels.value[i])
    ELSE TRUE

\* BasePlugin.setContext: [ok, plugin]
setContext(plugin, key, value) ==
  IF ~plugin.context.isDefined \/ ~HasProperty(plugin.context.value, key)
    THEN [ok |-> FALSE, plugin |-> plugin]
    ELSE [ok |-> TRUE,
          plugin |-> [plugin EXCEPT !.context = Some(Assign(plugin.context.value, key, value))]]

(***************************************************************************)
(* AbTestManager.  An AbTest is [id, data]; a bare schema is [data].       *)
(***************************************************************************)
isAbTest(x) == "id" \in DOMAIN x /\ "data" \in DOMAIN x

\* A string given where an AbTest may be given: [str |-> the string].
StringKey(str) == [str |-> str]

\* _generateUniqueKey(): 't' + AbTestManager.n++
generateUniqueKey(counter) == "t" \o ToString(counter)

\* createTest(data)
createTest(data, counter) == [id |-> generateUniqueKey(counter), data |-> data]

\* startAbTest(obj): [tests, n, returned]
startAbTestWithoutIncrement(ts, counter, obj) ==
  [tests |-> Append(ts, createTest(obj, counter)),
   n |-> counter,
   returned |-> createTest(obj, counter)]
startAbTest(ts, counter, obj) ==
  [tests |-> Append(ts, createTest(obj, counter)),
   n |-> counter + 1,
   returned |-> createTest(obj, counter)]

\* delete this._tests[key]
RECURSIVE RemoveTest(_, _)
RemoveTest(ts, id) ==
  IF ts = <<>> THEN <<>>
  ELSE (IF Head(ts).id = id THEN <<>> ELSE <<Head(ts)>>) \o RemoveTest(Tail(ts), id)

\* endAbTest(key): if (isAbTest(key)) key = key.id; delete this._tests[key]
endAbTestStringOnly(ts, key) ==
  IF isAbTest(key) THEN ts ELSE RemoveTest(ts, key.str)
endAbTest(ts, key) ==
  RemoveTest(ts, IF isAbTest(key) THEN key.id ELSE key.str)

\* endAllAbTests(): every key of this._tests is deleted
endAllAbTests(ts) == <<>>

\* generateContexts(transient): the schemas of the active tests followed by
\* those of the transient entries; each transient bare schema is wrapped by
\* createTest, which draws an id from the static counter.
RECURSIVE WrapTransient(_, _)
WrapTransient(arr, counter) ==
  IF arr = <<>> THEN [schemas |-> <<>>, n |-> counter]
  ELSE LET wrapped == isAbTest(Head(arr))
           rest == WrapTransient(Tail(arr), IF wrapped THEN counter ELSE counter + 1)
       IN [schemas |-> <<Head(arr).data>> \o rest.schemas, n |-> rest.n]

generateContextsKeepingTransient(ts, counter, transient) ==
  WrapTransient(ts \o <<[data |-> "transient"]>>
                   \o (IF transient.isDefined THEN transient.value ELSE <<>>), counter)
generateContexts(ts, counter, transient) ==
  WrapTransient(ts \o (IF transient.isDefined THEN transient.value ELSE <<>>), counter)


(***************************************************************************)
(* Snapshots.  A nested object of a snapshot under construction is either  *)
(* a reference to a live object of the service ([ref |-> plugin name], the *)
(* plugin's context object) or a value ([val |-> object]).  The JSON round *)
(* trip of cloneStratumSnapshot turns every reference into a value; it     *)
(* drops the keys whose value is undefined.                                *)
(***************************************************************************)
JsonObject(obj) == [k \in {f \in DOMAIN obj : obj[f] # Undefined} |-> obj[k]]

\* What reading a nested object yields now.
Deref(o) == IF "ref" \in DOMAIN o THEN plugins[o.ref].context.value ELSE o.val

\* The keys of the global context carry the plugin's prefix: `${prefix}_${c}`.
Prefixed(prefix, ctx) == [k \in {<<prefix, c>> : c \in DOMAIN ctx} |-> ctx[k[2]]]

\* The plugin names of the given publishers that are registered plugins.
SnapshotPluginNames(pubs) ==
  {publisherObjs[pubs[i]].pluginName : i \in DOMAIN pubs} \cap DOMAIN plugins

\* generateStratumSnapshot before its final clone: the object literal handed
\* to cloneStratumSnapshot.
RawSnapshot(model, catalogId, pubs, options) ==
  [abTestSchemas |-> generateContexts(tests, n,
                        IF options.isDefined /\ "abTestSchemas" \in DOMAIN options.value
                          THEN Some(options.value.abTestSchemas) ELSE None).schemas,
   catalog |-> [id |-> catalogId],
   plugins |-> [nm \in SnapshotPluginNames(pubs) |->
                  [context |-> IF plugins[nm].context.isDefined
                                 THEN [ref |-> nm] ELSE [val |-> EmptyObject]]],
   globalContext |-> [nm \in {p \in DOMAIN plugins : plugins[p].context.isDefined} |->
                        IF plugins[nm].useGlobalContextPrefix
                          THEN [val |-> Prefixed(nm, plugins[nm].context.value)]
                          ELSE [ref |-> nm]],
   event |-> [eventType |-> model.eventType, id |-> model.id],
   eventOptions |-> options]

\* cloneStratumSnapshot: JSON.parse(safeStringify(event))
cloneStratumSnapshotByReference(event) == event
cloneStratumSnapshot(event) ==
  [event EXCEPT
     !.plugins = [nm \in DOMAIN @ |-> [context |-> [val |-> JsonObject(Deref(@[nm].context))]]],
     !.globalContext = [nm \in DOMAIN @ |-> [val |-> JsonObject(Deref(@[nm]))]]]

generateStratumSnapshot(model, catalogId, pubs, options) ==
  cloneStratumSnapshot(RawSnapshot(model, catalogId, pubs, options))

\* populateDynamicEventOptions
populateDynamicEventOptionsAnyPlugin(pub, incomingOptions) ==
  LET options == IF incomingOptions.isDefined THEN incomingOptions.value ELSE EmptyObject
      withData == IF "pluginData" \in DOMAIN options /\ DOMAIN options.pluginData # {}
                    THEN Assign(options, "data",
                                options.pluginData[CHOOSE k \in DOMAIN options.pluginData : TRUE])
                    ELSE options
  IN Delete(withData, "pluginData")

populateDynamicEventOptions(pub, incomingOptions) ==
  LET options == IF incomingOptions.isDefined THEN incomingOptions.value ELSE EmptyObject
      withData == IF /\ pub.pluginName # Undefined /\ pub.pluginName # ""
                     /\ "pluginData" \in DOMAIN options
                     /\ HasProperty(options.pluginData, pub.pluginName)
                    THEN Assign(options, "data", Read(options.pluginData, pub.pluginName))
                    ELSE options
  IN Delete(withData, "pluginData")

\* What an observer reading the snapshot now sees of it.
View(snap) ==
  [abTestSchemas |-> snap.abTestSchemas,
   plugins |-> [nm \in DOMAIN snap.plugins |-> Deref(snap.plugins[nm].context)],
   globalContext |-> [nm \in DOMAIN snap.globalContext |-> Deref(snap.globalContext[nm])],
   eventOptions |-> snap.eventOptions]


(***************************************************************************)
(* The environment: session storage and the random source.  A storage is a *)
(* function from its keys to Some(string), or None where getItem yields    *)
(* null.  An environment env says whether getItem / setItem throw, whether *)
(* crypto.randomUUID exists, and which values it would return next.        *)
(***************************************************************************)
DEBUG_KEY == "stratumdb"
STORED_SESSION_ID_KEY == "stm_internal_id"
NilUuid == "00000000-0000-0000-0000-000000000000"

EmptyStorage == [k \in {DEBUG_KEY, STORED_SESSION_ID_KEY} |-> None]
setItem(storage, key, value) == [storage EXCEPT ![key] = Some(value)]
removeItem(storage, key) == [storage EXCEPT ![key] = None]

\* String.prototype.toLowerCase on the values the debug key is given.
toLowerCase(str) ==
  IF str \in {"TRUE", "True", "true"} THEN "true"
  ELSE IF str \in {"FALSE", "False", "false"} THEN "false"
  ELSE str

\* debugModeEnabled(): sessionStorage.getItem(DEBUG_KEY)?.toLowerCase() === 'true'
debugModeEnabled(storage, getItemThrows) ==
  IF getItemThrows THEN FALSE
  ELSE storage[DEBUG_KEY].isDefined /\ toLowerCase(storage[DEBUG_KEY].value) = "true"

\* uuid(): crypto.randomUUID(), or the nil uuid when that throws
uuid(cryptoAvailable, random) == IF cryptoAvailable THEN random ELSE NilUuid

\* generateDefaultSessionId(): [id, storage]
generateDefaultSessionIdAlwaysFresh(storage, env) ==
  IF env.getItemThrows \/ env.setItemThrows
    THEN [id |-> uuid(env.cryptoAvailable, env.randomAgain), storage |-> storage]
    ELSE [id |-> uuid(env.cryptoAvailable, env.random),
          storage |-> setItem(storage, STORED_SESSION_ID_KEY,
                              uuid(env.cryptoAvailable, env.random))]
generateDefaultSessionId(storage, env) ==
  IF env.getItemThrows
    THEN [id |-> uuid(env.cryptoAvailable, env.randomAgain), storage |-> storage]
  ELSE IF storage[STORED_SESSION_ID_KEY].isDefined
    THEN [id |-> storage[STORED_SESSION_ID_KEY].value, storage |-> storage]
  ELSE IF env.setItemThrows
    THEN [id |-> uuid(env.cryptoAvailable, env.randomAgain), storage |-> storage]
  ELSE [id |-> uuid(env.cryptoAvailable, env.random),
        storage |-> setItem(storage, STORED_SESSION_ID_KEY,
                            uuid(env.cryptoAvailable, env.random))]

\* A browser whose storage and random source work.
WorkingEnv(random) ==
  [getItemThrows |-> FALSE, setItemThrows |-> FALSE, cryptoAvailable |-> TRUE,
   random |-> random, randomAgain |-> random]

\* The storage after the Injector of the service was constructed.
ConstructedStorage == generateDefaultSessionId(EmptyStorage, WorkingEnv("uuid-0")).storage

(***************************************************************************)
(* The service as constructed: new StratumService({ plugins, catalog }).   *)
(***************************************************************************)
DefaultCatalogId == "my-product-name:1.0"

EmptyService ==
  [publishers |-> <<>>,
   publisherObjs |-> [p \in AllPublishers |->
                        IF p = "pubE"
                          THEN [NewPublisher EXCEPT !.acceptedEventModels = Some(<<"AModel">>)]
                          ELSE NewPublisher],
   uniqueId |-> 0,
   plugins |-> [k \in {} |-> PluginA],
   eventTypeModelMap |-> [t \in {"base"} |-> [pluginName |-> Undefined, model |-> "BaseEventModel"]]]

ConstructedService == addPlugin(EmptyService, <<PluginA, PluginB>>)

\* The event model the dispatch table instantiates for an entry.
EventModel(key, eventType, id) ==
  [key |-> key, eventType |-> eventType, id |-> id,
   cls |-> ConstructedService.eventTypeModelMap[eventType].model]

(***************************************************************************)
(* Catalog entries.  An entry is [key, eventType, id, description]; its id *)
(* is a number, a string or missing, its description a string, a value of  *)
(* another type (NumberDescription stands for the number 5) or missing.    *)
(* The items of a catalog are listed in the order Object.keys yields them. *)
(***************************************************************************)
NumberId(v) == [type |-> "number", value |-> v]
StringId(v) == [type |-> "string", value |-> v]
NoId == [type |-> "undefined", value |-> Undefined]

\* The property key JavaScript derives from an id: 1 and '1' are the same key.
IdKey(id) == IF id.type = "number" THEN ToString(id.value) ELSE id.value

NumberDescription == "<number 5>"

\* typeof this.item.description
TypeOfDescription(description) ==
  IF description = Undefined THEN "undefined"
  ELSE IF description = NumberDescription THEN "number"
  ELSE "string"

Item(key, eventType, id, description) ==
  [key |-> key, eventType |-> eventType, id |-> id, description |-> description]

\* Injector.isEventIdRegistered: the record of this catalog id only.
isEventIdRegisteredAnyCatalog(ids, catalogId, id) ==
  \E c \in DOMAIN ids : HasProperty(ids[c], IdKey(id))
isEventIdRegistered(ids, catalogId, id) ==
  /\ catalogId \in DOMAIN ids
  /\ HasProperty(ids[catalogId], IdKey(id))

\* Injector.registerEventId
registerEventIdReplacing(ids, catalogId, id) ==
  Assign(ids, catalogId, Assign(EmptyObject, IdKey(id), TRUE))
registerEventId(ids, catalogId, id) ==
  LET ids1 == IF HasProperty(ids, catalogId) THEN ids ELSE Assign(ids, catalogId, EmptyObject)
  IN [ids1 EXCEPT ![catalogId] = Assign(@, IdKey(id), TRUE)]

\* BaseEventModel.checkValidity: the validation errors of one entry.
InvalidId(id) ==
  \/ id.type \notin {"number", "string"}
  \/ id.type = "number" /\ id.value < 0
  \/ id.type = "string" /\ id.value = ""

checkValidity(item, catalogId, ids) ==
  (IF InvalidId(item.id) THEN <<"An invalid id was provided">> ELSE <<>>)
  \o (IF isEventIdRegistered(ids, catalogId, item.id) THEN <<"Duplicate id in catalog">> ELSE <<>>)
  \o (IF TypeOfDescription(item.description) # "string"
        THEN <<"An invalid description was provided">> ELSE <<>>)

\* generateCatalogId(options, productName, productVersion)
ProductName == "my-product-name"
ProductVersion == "1.0"
generateCatalogId(options, productName, productVersion) ==
  LET name == IF options.componentName.isDefined THEN options.componentName.value
              ELSE productName
      version == IF options.catalogVersion.isDefined THEN options.catalogVersion.value
                 ELSE IF options.componentVersion.isDefined THEN options.componentVersion.value
                 ELSE productVersion
  IN name \o ":" \o version

\* new RegisteredStratumCatalog(id, options, injector): every entry is looked
\* up in the dispatch table, validated, and filed under validModels or errors;
\* a valid entry's id is registered for this catalog.
RECURSIVE ProcessItems(_, _, _, _)
ProcessItems(catalog, ids, map, items) ==
  IF items = <<>> THEN [catalog |-> catalog, ids |-> ids]
  ELSE LET item == Head(items)
           found == item.eventType \in DOMAIN map
           errs == IF found THEN checkValidity(item, catalog.id, ids)
                   ELSE <<"No model class for the event type">>
           model == [key |-> item.key, eventType |-> item.eventType, id |-> item.id.value,
                     cls |-> map[item.eventType].model]
       IN IF errs = <<>>
            THEN ProcessItems([catalog EXCEPT !.validModels = Assign(@, item.key, model)],
                              registerEventId(ids, catalog.id, item.id), map, Tail(items))
            ELSE ProcessItems([catalog EXCEPT !.errors = Assign(@, item.key, [errors |-> errs])],
                              ids, map, Tail(items))

RegisteredStratumCatalog(id, options, ids, map) ==
  LET r == ProcessItems([id |-> id, validModels |-> EmptyObject, errors |-> EmptyObject],
                        ids, map, options.items)
  IN [catalog |-> [id |-> id,
                   validModels |-> r.catalog.validModels,
                   errors |-> r.catalog.errors,
                   isValid |-> (DOMAIN r.catalog.errors = {})],
      ids |-> r.ids]

(***************************************************************************)
(* StratumService.addCatalog / removeCatalog.  The service state they work *)
(* on is a record reg with the fields catalogs, defaultCatalog,            *)
(* registeredEventIds and eventTypeModelMap.                               *)
(***************************************************************************)
addCatalogOverwriting(reg, options) ==
  LET id == generateCatalogId(options, ProductName, ProductVersion)
      r == RegisteredStratumCatalog(id, options, reg.registeredEventIds, reg.eventTypeModelMap)
  IN [reg |-> [reg EXCEPT !.catalogs = Assign(reg.catalogs, id, r.catalog),
                          !.registeredEventIds = r.ids],
      id |-> id]
addCatalogEmptyIdWhenInvalid(reg, options) ==
  LET id == generateCatalogId(options, ProductName, ProductVersion)
      r == RegisteredStratumCatalog(id, options, reg.registeredEventIds, reg.eventTypeModelMap)
  IN IF PropertyRead(reg.catalogs, id).kind # "undefined"
       THEN [reg |-> reg, id |-> ""]
       ELSE [reg |-> [reg EXCEPT !.catalogs = Assign(reg.catalogs, id, r.catalog),
                                 !.registeredEventIds = r.ids],
             id |-> IF r.catalog.isValid THEN id ELSE ""]
addCatalogAdoptingDefault(reg, options) ==
  LET id == generateCatalogId(options, ProductName, ProductVersion)
      r == RegisteredStratumCatalog(id, options, reg.registeredEventIds, reg.eventTypeModelMap)
  IN IF PropertyRead(reg.catalogs, id).kind # "undefined"
       THEN [reg |-> reg, id |-> ""]
       ELSE [reg |-> [reg EXCEPT !.catalogs = Assign(reg.catalogs, id, r.catalog),
                                 !.registeredEventIds = r.ids,
                                 !.defaultCatalog = IF @.isDefined THEN @ ELSE Some(id)],
             id |-> id]
addCatalog(reg, options) ==
  LET id == generateCatalogId(options, ProductName, ProductVersion)
      r == RegisteredStratumCatalog(id, options, reg.registeredEventIds, reg.eventTypeModelMap)
  IN IF PropertyRead(reg.catalogs, id).kind # "undefined"
       THEN [reg |-> reg, id |-> ""]
       ELSE [reg |-> [reg EXCEPT !.catalogs = Assign(reg.catalogs, id, r.catalog),
                                 !.registeredEventIds = r.ids],
             id |-> id]

removeCatalogKeepingIds(reg, id) ==
  LET reg1 == IF HasProperty(reg.catalogs, id)
                THEN [reg EXCEPT !.catalogs = Delete(reg.catalogs, id)]
                ELSE reg
  IN IF reg1.defaultCatalog.isDefined /\ reg1.defaultCatalog.value = id
       THEN [reg1 EXCEPT !.defaultCatalog = None]
       ELSE reg1
removeCatalog(reg, id) ==
  LET reg1 == IF HasProperty(reg.catalogs, id)
                THEN [reg EXCEPT !.catalogs = Delete(reg.catalogs, id),
                                 !.registeredEventIds = Delete(reg.registeredEventIds, id)]
                ELSE reg
  IN IF reg1.defaultCatalog.isDefined /\ reg1.defaultCatalog.value = id
       THEN [reg1 EXCEPT !.defaultCatalog = None]
       ELSE reg1

\* The entries of the catalog the service is constructed with: k0 and k1
\* validate, k3 has no id.
DefaultItems ==
  <<Item("k0", "base", NumberId(0), "d"),
    Item("k1", "a", NumberId(1), "d"),
    Item("k3", "a", NoId, "d")>>
DefaultOptions ==
  [items |-> DefaultItems, componentName |-> None, componentVersion |-> None,
   catalogVersion |-> None]

\* The constructor's addCatalog on the freshly constructed service.
ConstructedRegistry ==
  addCatalog([catalogs |-> EmptyObject, defaultCatalog |-> None,
              registeredEventIds |-> EmptyObject,
              eventTypeModelMap |-> ConstructedService.eventTypeModelMap],
             DefaultOptions).reg

\* The default catalog after registration: k0 and k1 validated, k3 did not.
DefaultCatalog == ConstructedRegistry.catalogs[DefaultCatalogId]

(***************************************************************************)
(* Inputs of the publish calls.                                            *)
(***************************************************************************)
CatalogIdInputs == {DefaultCatalogId, "unknowncatalogid", "constructor"}
KeyInputs == {"k0", "k1", "k3", "unknownkey"}
PluginDataBoth == [p \in {"pluginA", "pluginB"} |-> <<"data for", p>>]
PluginDataB == [p \in {"pluginB"} |-> <<"data for", p>>]
OptionInputs ==
  {None,
   Some([pluginData |-> PluginDataBoth]),
   Some([pluginData |-> PluginDataB, abTestSchemas |-> <<[data |-> "transient"]>>])}
SchemaInputs == {"test-ab"}
ListenerInputs == {"listener1"}

(***************************************************************************)
(* A publish call and its publisher tasks.                                 *)
(***************************************************************************)
NewTask(p) ==
  [publisher |-> p,
   pc |-> "queued",
   isAvailableCalls |-> 0, getEventOutputCalls |-> 0, publishCalls |-> 0,
   available |-> "none",       \* how isAvailable settled: true, false, rejected
   output |-> "none",          \* how getEventOutput ended: returned, threw
   sent |-> "none",            \* how publish settled: resolved, rejected
   content |-> None,           \* what getEventOutput returned
   published |-> None,         \* what publish was called with
   seen |-> None,              \* the publisher's private snapshot, as it read it
   atRun |-> None]             \* the state of the service when the microtask ran

\* const catalog = this.catalogs[catalogId];
\* if (!catalog || !catalog.validModels[key]) return Promise.resolve(false);
ResolveTargetAnyEntry(catalogId, key) ==
  LET catalog == PropertyRead(catalogs, catalogId)
  IN IF catalog.kind = "undefined" THEN [outcome |-> "miss"]
     ELSE IF catalog.kind = "inherited" THEN [outcome |-> "TypeError"]
     ELSE IF key \in DOMAIN catalog.value.validModels
       THEN [outcome |-> "found", model |-> catalog.value.validModels[key]]
     ELSE IF key \in DOMAIN catalog.value.errors
       THEN [outcome |-> "found",
             model |-> [key |-> key, eventType |-> "base", id |-> 0, cls |-> "BaseEventModel"]]
     ELSE [outcome |-> "miss"]
ResolveTarget(catalogId, key) ==
  LET catalog == PropertyRead(catalogs, catalogId)
  IN IF catalog.kind = "undefined" THEN [outcome |-> "miss"]
     ELSE IF catalog.kind = "inherited" THEN [outcome |-> "TypeError"]
     ELSE IF key \notin DOMAIN catalog.value.validModels THEN [outcome |-> "miss"]
     ELSE [outcome |-> "found", model |-> catalog.value.validModels[key]]

\* this.publishers.filter((publisher) => publisher.shouldPublishEvent(model))
FilterPublishers(model) ==
  SeqFilter(publishers, {p \in AllPublishers : shouldPublishEvent(publisherObjs[p], model)})

\* Injector.getExternalSnapshotListeners
getExternalSnapshotListeners == listeners.global \o listeners.scoped

\* publishers.map((publisher) => new Promise(... queueMicrotask(...) ...))
FanOutFirstOnly(c, pubs) ==
  [i \in 1..(IF pubs = <<>> THEN 0 ELSE 1) |-> [call |-> c, kind |-> "publisher", index |-> i]]
FanOut(c, pubs) == [i \in DOMAIN pubs |-> [call |-> c, kind |-> "publisher", index |-> i]]

\* The microtasks one call queues, in the order of its queueMicrotask calls:
\* `if (fns.length) queueMicrotask(() => fns.forEach(...))`, then one per publisher.
QueueMicrotasksPublishersFirst(c, fns, pubs) ==
  FanOut(c, pubs)
    \o (IF fns # <<>> THEN <<[call |-> c, kind |-> "listeners", index |-> 0]>> ELSE <<>>)
QueueMicrotasks(c, fns, pubs) ==
  (IF fns # <<>> THEN <<[call |-> c, kind |-> "listeners", index |-> 0]>> ELSE <<>>)
    \o FanOut(c, pubs)

\* Promise.all(tasks).then(() => true).catch(() => false)
AggregateAllSettled(tasks) ==
  IF \A i \in DOMAIN tasks : tasks[i].pc \in {"resolved", "rejected"} THEN "true" ELSE "pending"
Aggregate(tasks) ==
  IF \E i \in DOMAIN tasks : tasks[i].pc = "rejected" THEN "false"
  ELSE IF \A i \in DOMAIN tasks : tasks[i].pc = "resolved" THEN "true"
  ELSE "pending"

\* A promise settles once.
Settle(result, tasks) == IF result # "pending" THEN result ELSE Aggregate(tasks)

\* The state of the service now; recorded when a call is made and when its
\* microtasks run, for stating the properties.
AtCall ==
  [catalogs |-> catalogs,
   contexts |-> [nm \in DOMAIN plugins |-> plugins[nm].context],
   tests |-> tests,
   publishers |-> publishers,
   publisherObjs |-> publisherObjs,
   debug |-> debugModeEnabled(sessionStorage, FALSE)]

\* if (!publishers.length) return Promise.resolve(true); otherwise the promise
\* of the fan-out, pending until the tasks settle it.
InitialResultFalseWhenEmpty(pubs) == IF pubs = <<>> THEN "false" ELSE "pending"
InitialResult(pubs) == IF pubs = <<>> THEN "true" ELSE "pending"

CallRecord(catalogId, key, options, outcome, result) ==
  [catalogId |-> catalogId, key |-> key, options |-> options,
   outcome |-> outcome, result |-> result,
   model |-> None, publishers |-> <<>>, snapshot |-> None,
   fns |-> <<>>, delivered |-> <<>>, tasks |-> <<>>, atCall |-> AtCall]

publishFromCatalog(catalogId, key, options) ==
  LET target == ResolveTarget(catalogId, key)
      c == Len(calls) + 1
  IN IF target.outcome = "miss"
       THEN /\ calls' = Append(calls, CallRecord(catalogId, key, options, "miss", "false"))
            /\ UNCHANGED <<microtasks, n>>
     ELSE IF target.outcome = "TypeError"
       THEN /\ calls' = Append(calls, CallRecord(catalogId, key, options, "TypeError", "rejected"))
            /\ UNCHANGED <<microtasks, n>>
     ELSE LET model == target.model
              pubs == FilterPublishers(model)
              snapshot == generateStratumSnapshot(model, catalogId, pubs, options)
              fns == getExternalSnapshotListeners
              transient == IF options.isDefined /\ "abTestSchemas" \in DOMAIN options.value
                             THEN Some(options.value.abTestSchemas) ELSE None
          IN /\ calls' = Append(calls,
                   [CallRecord(catalogId, key, options, "found", InitialResult(pubs))
                      EXCEPT !.model = Some(model),
                             !.publishers = pubs,
                             !.snapshot = Some(snapshot),
                             !.fns = fns,
                             !.tasks = [i \in DOMAIN pubs |-> NewTask(pubs[i])]])
             /\ microtasks' = microtasks \o QueueMicrotasks(c, fns, pubs)
             /\ n' = generateContexts(tests, n, transient).n


(***************************************************************************)
(* Initial state: the service as constructed, with or without a default    *)
(* catalog; no listener registered, no A/B test started, nothing published.*)
(***************************************************************************)
Init ==
  /\ \E withCatalog \in BOOLEAN :
        /\ catalogs = IF withCatalog THEN [id \in {DefaultCatalogId} |-> DefaultCatalog]
                      ELSE [id \in {} |-> DefaultCatalog]
        /\ defaultCatalog = IF withCatalog THEN Some(DefaultCatalogId) ELSE None
        /\ registeredEventIds = IF withCatalog THEN ConstructedRegistry.registeredEventIds
                                ELSE EmptyObject
  /\ publishers = ConstructedService.publishers
  /\ publisherObjs = ConstructedService.publisherObjs
  /\ uniqueId = ConstructedService.uniqueId
  /\ plugins = ConstructedService.plugins
  /\ eventTypeModelMap = ConstructedService.eventTypeModelMap
  /\ tests = <<>>
  /\ n = 1
  /\ listeners = [global |-> <<>>, scoped |-> <<>>]
  /\ calls = <<>>
  /\ microtasks = <<>>
  /\ sessionStorage = ConstructedStorage
  /\ last = [op |-> "constructor"]

registry == <<catalogs, defaultCatalog, publishers, publisherObjs, uniqueId, plugins,
              eventTypeModelMap, registeredEventIds, sessionStorage, last>>

(***************************************************************************)
(* Application calls.                                                      *)
(***************************************************************************)
\* StratumService.publishFromCatalog(catalogId, key, options)
PublishFromCatalogOf(catalogIds, keys, optionSet) ==
  \E catalogId \in catalogIds, key \in keys, options \in optionSet :
    /\ Len(calls) < MaxCalls
    /\ publishFromCatalog(catalogId, key, options)
    /\ UNCHANGED <<registry, tests, listeners>>

\* StratumService.publish(key, options)
PublishOf(keys, optionSet) ==
  \E key \in keys, options \in optionSet :
    /\ Len(calls) < MaxCalls
    /\ publishFromCatalog(IF defaultCatalog.isDefined THEN defaultCatalog.value ELSE "",
                          key, options)
    /\ UNCHANGED <<registry, tests, listeners>>

PublishFromCatalog == PublishFromCatalogOf(CatalogIdInputs, KeyInputs, OptionInputs)
Publish == PublishOf(KeyInputs, OptionInputs)

\* plugin.setContext(key, value)
SetContext ==
  \E nm \in DOMAIN plugins, key \in ContextKeys, value \in ContextValues :
    /\ plugins' = [plugins EXCEPT ![nm] = setContext(plugins[nm], key, value).plugin]
    /\ UNCHANGED <<catalogs, defaultCatalog, publishers, publisherObjs, uniqueId,
                   eventTypeModelMap, registeredEventIds, sessionStorage, tests, n, listeners, calls,
                   microtasks, last>>

\* StratumService.startAbTest(obj)
StartAbTest ==
  \E obj \in SchemaInputs :
    /\ n <= MaxAbTests
    /\ tests' = startAbTest(tests, n, obj).tests
    /\ n' = startAbTest(tests, n, obj).n
    /\ UNCHANGED <<registry, listeners, calls, microtasks>>

\* StratumService.endAbTest(key): key is an id or an AbTest
EndAbTest ==
  \E id \in 1..(MaxAbTests + 1), asObject \in BOOLEAN :
    LET key == IF asObject THEN createTest("test-ab", id) ELSE StringKey(generateUniqueKey(id))
    IN /\ tests' = endAbTest(tests, key)
       /\ UNCHANGED <<registry, n, listeners, calls, microtasks>>

\* StratumService.endAllAbTests()
EndAllAbTests ==
  /\ tests' = endAllAbTests(tests)
  /\ UNCHANGED <<registry, n, listeners, calls, microtasks>>

\* StratumService.addSnapshotListener(fn): appended to the product-scoped array
AddSnapshotListener ==
  \E fn \in ListenerInputs :
    /\ Len(listeners.global) + Len(listeners.scoped) < MaxListeners
    /\ listeners' = [listeners EXCEPT !.scoped = Append(@, fn)]
    /\ UNCHANGED <<registry, tests, n, calls, microtasks>>

\* StratumService.addPublisher(publisher) with a publisher owned by no plugin
AddPublisher ==
  /\ "pubC" \notin Range(publishers)
  /\ LET svc == addPublisher([publishers |-> publishers, publisherObjs |-> publisherObjs,
                              uniqueId |-> uniqueId, plugins |-> plugins,
                              eventTypeModelMap |-> eventTypeModelMap], "pubC")
     IN /\ publishers' = svc.publishers
        /\ publisherObjs' = svc.publisherObjs
        /\ uniqueId' = svc.uniqueId
  /\ UNCHANGED <<catalogs, defaultCatalog, plugins, eventTypeModelMap, registeredEventIds,
                 sessionStorage, tests, n, listeners, calls, microtasks, last>>

(***************************************************************************)
(* Microtasks and promise continuations.                                   *)
(***************************************************************************)
\* queueMicrotask(() => fns.forEach((fn) => fn(snapshot)))
RunListeners ==
  /\ microtasks # <<>>
  /\ Head(microtasks).kind = "listeners"
  /\ LET c == Head(microtasks).call
     IN calls' = [calls EXCEPT ![c].delivered =
                    @ \o [i \in DOMAIN calls[c].fns |->
                            [listener |-> calls[c].fns[i],
                             seen |-> View(calls[c].snapshot.value),
                             atRun |-> AtCall]]]
  /\ microtasks' = Tail(microtasks)
  /\ UNCHANGED <<registry, tests, n, listeners>>

\* The publisher microtask up to its first await: clone the snapshot, set the
\* publisher's eventOptions, invoke isAvailable.
StartTaskIfStillRegistered(call, task) ==
  IF task.publisher \in Range(publishers) /\ call.catalogId \in DOMAIN catalogs
    THEN [task EXCEPT !.pc = "awaitIsAvailable",
                      !.isAvailableCalls = @ + 1,
                      !.seen = Some(View(
                         [cloneStratumSnapshot(call.snapshot.value) EXCEPT
                            !.eventOptions = populateDynamicEventOptions(
                                                publisherObjs[task.publisher], call.options)])),
                      !.atRun = Some(AtCall)]
    ELSE [task EXCEPT !.pc = "rejected", !.atRun = Some(AtCall)]
StartTask(call, task) ==
  LET internalSnapshot ==
        [cloneStratumSnapshot(call.snapshot.value) EXCEPT
           !.eventOptions = populateDynamicEventOptions(publisherObjs[task.publisher], call.options)]
  IN [task EXCEPT !.pc = "awaitIsAvailable",
                  !.isAvailableCalls = @ + 1,
                  !.seen = Some(View(internalSnapshot)),
                  !.atRun = Some(AtCall)]

RunPublisherTaskDroppingPublisher ==
  /\ microtasks # <<>>
  /\ Head(microtasks).kind = "publisher"
  /\ LET c == Head(microtasks).call
         i == Head(microtasks).index
     IN calls' = [calls EXCEPT ![c].tasks[i] = StartTask(calls[c], @)]
  /\ microtasks' = Tail(microtasks)
  /\ publishers' = Tail(publishers)
  /\ UNCHANGED <<catalogs, defaultCatalog, publisherObjs, uniqueId, plugins,
                 eventTypeModelMap, registeredEventIds, sessionStorage, last, tests, n,
                 listeners>>
RunPublisherTask ==
  /\ microtasks # <<>>
  /\ Head(microtasks).kind = "publisher"
  /\ LET c == Head(microtasks).call
         i == Head(microtasks).index
     IN calls' = [calls EXCEPT ![c].tasks[i] = StartTask(calls[c], @)]
  /\ microtasks' = Tail(microtasks)
  /\ UNCHANGED <<registry, tests, n, listeners>>

\* publisher.getEventOutput(model, internalSnapshot), when it returns
EventOutput(task, model) ==
  [publisher |-> task.publisher, event |-> model.id, eventOptions |-> task.seen.value.eventOptions]

\* The continuation after `await publisher.isAvailable(...)`.
AfterIsAvailableUnchecked(task, model, isAvailable, outputThrows) ==
  IF outputThrows
    THEN [task EXCEPT !.available = IF isAvailable THEN "true" ELSE "false",
                      !.getEventOutputCalls = @ + 1, !.output = "threw", !.pc = "failed"]
    ELSE [task EXCEPT !.available = IF isAvailable THEN "true" ELSE "false",
                      !.getEventOutputCalls = @ + 1, !.output = "returned",
                      !.content = Some(EventOutput(task, model)),
                      !.publishCalls = @ + 1,
                      !.published = Some(EventOutput(task, model)),
                      !.pc = "awaitPublish"]
AfterIsAvailable(task, model, isAvailable, outputThrows) ==
  IF isAvailable
    THEN IF outputThrows
           THEN [task EXCEPT !.available = "true",
                             !.getEventOutputCalls = @ + 1, !.output = "threw", !.pc = "failed"]
           ELSE [task EXCEPT !.available = "true",
                             !.getEventOutputCalls = @ + 1, !.output = "returned",
                             !.content = Some(EventOutput(task, model)),
                             !.publishCalls = @ + 1,
                             !.published = Some(EventOutput(task, model)),
                             !.pc = "awaitPublish"]
    ELSE [task EXCEPT !.available = "false", !.pc = "rejected"]

UpdateTask(c, i, task) ==
  LET tasks == [calls[c].tasks EXCEPT ![i] = task]
  IN /\ calls' = [calls EXCEPT ![c].tasks = tasks,
                               ![c].result = Settle(@, tasks)]
     /\ UNCHANGED <<registry, tests, n, listeners, microtasks>>

Awaiting(pc) ==
  {<<c, i>> \in (DOMAIN calls) \X (1..Cardinality(AllPublishers)) :
     i \in DOMAIN calls[c].tasks /\ calls[c].tasks[i].pc = pc}

\* isAvailable resolves true: getEventOutput runs (returns or throws), and if
\* it returned, publish is invoked with its content.
IsAvailableResolvesTrue ==
  \E t \in Awaiting("awaitIsAvailable"), outputThrows \in BOOLEAN :
    UpdateTask(t[1], t[2],
               AfterIsAvailable(calls[t[1]].tasks[t[2]], calls[t[1]].model.value, TRUE, outputThrows))

\* isAvailable resolves false: the task's promise is rejected.
IsAvailableResolvesFalse ==
  \E t \in Awaiting("awaitIsAvailable") :
    UpdateTask(t[1], t[2],
               AfterIsAvailable(calls[t[1]].tasks[t[2]], calls[t[1]].model.value, FALSE, FALSE))

\* isAvailable rejects (or throws): the async callback ends by an exception;
\* neither resolve() nor reject() of the task's promise is called.
IsAvailableRejects ==
  \E t \in Awaiting("awaitIsAvailable") :
    UpdateTask(t[1], t[2],
               [calls[t[1]].tasks[t[2]] EXCEPT !.available = "rejected", !.pc = "failed"])

\* publish resolves: resolve() of the task's promise is called.
PublishResolves ==
  \E t \in Awaiting("awaitPublish") :
    UpdateTask(t[1], t[2], [calls[t[1]].tasks[t[2]] EXCEPT !.sent = "resolved", !.pc = "resolved"])

\* publish rejects (or throws): the async callback ends by an exception.
PublishRejects ==
  \E t \in Awaiting("awaitPublish") :
    UpdateTask(t[1], t[2], [calls[t[1]].tasks[t[2]] EXCEPT !.sent = "rejected", !.pc = "failed"])

(***************************************************************************)
(* The publish pipeline: publish calls with every kind of target, the      *)
(* registration of a listener and of a publisher owned by no plugin, and   *)
(* the microtasks and continuations of the calls in flight.                *)
(***************************************************************************)
Next ==
  \/ PublishFromCatalog
  \/ Publish
  \/ AddSnapshotListener
  \/ AddPublisher
  \/ RunListeners
  \/ RunPublisherTask
  \/ IsAvailableResolvesTrue
  \/ IsAvailableResolvesFalse
  \/ IsAvailableRejects
  \/ PublishResolves
  \/ PublishRejects

Spec == Init /\ [][Next]_vars

(***************************************************************************)
(* The application changing plugin context and A/B tests around publish    *)
(* calls of one valid entry, up to the point where each observer (listener *)
(* or publisher) has been handed its snapshot.                             *)
(***************************************************************************)
PublishValid == PublishOf({"k1"}, {None})

NextSnapshot ==
  \/ PublishValid
  \/ SetContext
  \/ StartAbTest
  \/ EndAbTest
  \/ EndAllAbTests
  \/ AddSnapshotListener
  \/ RunListeners
  \/ RunPublisherTask

SpecSnapshot == Init /\ [][NextSnapshot]_vars

(***************************************************************************)
(* The registry specification: catalogs and plugins are added and removed  *)
(* at run time.  Each call records its input, its result and the registry  *)
(* state it found.                                                         *)
(***************************************************************************)
DuplicateItems ==
  <<Item("first", "a", NumberId(1), "d"),
    Item("second", "b", NumberId(1), "d"),
    Item("third", "base", StringId("1"), "d"),
    Item("other", "c", NumberId(2), "d"),
    Item("last", "b", StringId("abc"), "d"),
    Item("ctor", "b", StringId("constructor"), "d")>>

InvalidItems ==
  <<Item("e0", Undefined, NoId, Undefined),
    Item("e1", "a", NoId, Undefined),
    Item("e2", "a", NumberId(-1), "d"),
    Item("e3", "zzz", NumberId(3), "d"),
    Item("e4", "b", StringId(""), "d")>>

\* Valid once a plugin has registered the event type 'c'.
ValidItems ==
  <<Item("abc", "a", NumberId(1000), "d"),
    Item("cde", "c", StringId("x"), "d")>>

\* Entries that fail validation and later entries that reuse their ids;
\* entries with an empty and with a non-string description.
ReusedIdItems ==
  <<Item("r0", "a", NumberId(5), Undefined),
    Item("r1", "zzz", StringId("y"), "d"),
    Item("r2", "a", StringId("5"), "d"),
    Item("r3", "b", StringId("y"), "d"),
    Item("r4", "a", NumberId(5), "d"),
    Item("r5", "a", StringId("constructor"), Undefined),
    Item("r6", "a", StringId("constructor"), "d"),
    Item("r7", "a", NumberId(7), ""),
    Item("r8", "a", NumberId(8), NumberDescription)>>

ItemInputs == {DefaultItems, DuplicateItems, InvalidItems, ValidItems, ReusedIdItems}

MetadataInputs ==
  {[componentName |-> None, componentVersion |-> None, catalogVersion |-> None],
   [componentName |-> None, componentVersion |-> Some("0.1"), catalogVersion |-> Some("2.0")],
   [componentName |-> Some("comp"), componentVersion |-> Some("0.1"), catalogVersion |-> None]}

CatalogInputs ==
  {[items |-> items, componentName |-> m.componentName,
    componentVersion |-> m.componentVersion, catalogVersion |-> m.catalogVersion] :
     items \in ItemInputs, m \in MetadataInputs}

RemoveInputs ==
  {generateCatalogId([items |-> <<>>, componentName |-> m.componentName,
                      componentVersion |-> m.componentVersion,
                      catalogVersion |-> m.catalogVersion], ProductName, ProductVersion) :
     m \in MetadataInputs} \cup {"unknowncatalogid", "constructor"}

PluginInputs == {PluginC, PluginD, PluginA2, PluginNameless}

RegistryState ==
  [catalogs |-> catalogs, defaultCatalog |-> defaultCatalog,
   registeredEventIds |-> registeredEventIds, eventTypeModelMap |-> eventTypeModelMap,
   plugins |-> plugins, publishers |-> publishers, publisherObjs |-> publisherObjs,
   uniqueId |-> uniqueId]

\* StratumService.addCatalog(options)
AddCatalogOf(inputs) ==
  \E options \in inputs :
    LET r == addCatalog(RegistryState, options)
    IN /\ catalogs' = r.reg.catalogs
       /\ registeredEventIds' = r.reg.registeredEventIds
       /\ defaultCatalog' = r.reg.defaultCatalog
       /\ last' = [op |-> "addCatalog", options |-> options, returned |-> r.id,
                   before |-> RegistryState]
       /\ UNCHANGED <<publishers, publisherObjs, uniqueId, plugins, eventTypeModelMap,
                      sessionStorage, tests, n, listeners, calls, microtasks>>

AddCatalog == AddCatalogOf(CatalogInputs)

\* StratumService.removeCatalog(id)
RemoveCatalog ==
  \E id \in RemoveInputs :
    LET r == removeCatalog(RegistryState, id)
    IN /\ catalogs' = r.catalogs
       /\ registeredEventIds' = r.registeredEventIds
       /\ defaultCatalog' = r.defaultCatalog
       /\ last' = [op |-> "removeCatalog", id |-> id, before |-> RegistryState]
       /\ UNCHANGED <<publishers, publisherObjs, uniqueId, plugins, eventTypeModelMap,
                      sessionStorage, tests, n, listeners, calls, microtasks>>

\* StratumService.addPlugin(plugin)
AddPluginOf(inputs) ==
  \E plugin \in inputs :
    LET r == addPlugin(RegistryState, <<plugin>>)
    IN /\ publishers' = r.publishers
       /\ publisherObjs' = r.publisherObjs
       /\ uniqueId' = r.uniqueId
       /\ plugins' = r.plugins
       /\ eventTypeModelMap' = r.eventTypeModelMap
       /\ last' = [op |-> "addPlugin", plugin |-> plugin,
                   returned |-> registerPlugin(RegistryState, plugin).publishers,
                   before |-> RegistryState]
       /\ UNCHANGED <<catalogs, defaultCatalog, registeredEventIds,
                      sessionStorage, tests, n, listeners, calls, microtasks>>

AddPlugin == AddPluginOf(PluginInputs)

NextRegistry ==
  \/ AddCatalog
  \/ RemoveCatalog
  \/ AddPlugin

SpecRegistry == Init /\ [][NextRegistry]_vars

(***************************************************************************)
(* The plugin-hook specification: addPlugin is called with one plugin or a *)
(* list of two: new plugins, a second plugin under a registered name, a    *)
(* plugin without a name, and the same plugin twice.                       *)
(***************************************************************************)
PluginListInputs ==
  {<<a>> : a \in PluginInputs} \cup {<<a, b>> : a, b \in PluginInputs}

\* StratumService.addPlugin(plugins)
AddPlugins ==
  \E pluginList \in PluginListInputs :
    LET r == addPlugin(RegistryState, pluginList)
    IN /\ publishers' = r.publishers
       /\ publisherObjs' = r.publisherObjs
       /\ uniqueId' = r.uniqueId
       /\ plugins' = r.plugins
       /\ eventTypeModelMap' = r.eventTypeModelMap
       /\ last' = [op |-> "addPlugins", pluginList |-> pluginList,
                   hooks |-> onRegisterCalls(RegistryState, pluginList, 1),
                   before |-> RegistryState]
       /\ UNCHANGED <<catalogs, defaultCatalog, registeredEventIds,
                      sessionStorage, tests, n, listeners, calls, microtasks>>

PublishForPlugins == PublishOf({"k1"}, {None})

NextPlugins ==
  \/ AddPlugins
  \/ PublishForPlugins
  \/ RunPublisherTask

SpecPlugins == Init /\ [][NextPlugins]_vars

(***************************************************************************)
(* The default-catalog specification: the default catalog is removed,      *)
(* catalogs deriving its id (the same metadata, the same or other items)   *)
(* are added, and events are published through publish(key).               *)
(***************************************************************************)
DefaultIdCatalogInputs ==
  {[items |-> items, componentName |-> None, componentVersion |-> None,
    catalogVersion |-> None] : items \in {DefaultItems, ValidItems}}

AddDefaultIdCatalog == AddCatalogOf(DefaultIdCatalogInputs)
PublishDefault == PublishOf({"k1"}, {None})

NextDefaultCatalog ==
  \/ AddDefaultIdCatalog
  \/ RemoveCatalog
  \/ PublishDefault
  \/ RunPublisherTask

SpecDefaultCatalog == Init /\ [][NextDefaultCatalog]_vars

(***************************************************************************)
(* The plugin-context specification: the application calls setContext on   *)
(* the registered plugins with declared keys, undeclared keys and a key    *)
(* named like a member every object inherits.  Each call records its       *)
(* arguments, its result and the context it found.                         *)
(***************************************************************************)
AnyKeyInputs == {"var1", "var2", "var3", "constructor"}

\* BasePlugin.setContext(key, value) on a registered plugin
SetContextAnyKey ==
  \E nm \in DOMAIN plugins, key \in AnyKeyInputs, value \in ContextValues :
    LET r == setContext(plugins[nm], key, value)
    IN /\ plugins' = [plugins EXCEPT ![nm] = r.plugin]
       /\ last' = [op |-> "setContext", pluginName |-> nm, key |-> key, value |-> value,
                   returned |-> r.ok, before |-> plugins[nm].context]
       /\ UNCHANGED <<catalogs, defaultCatalog, publishers, publisherObjs, uniqueId,
                      eventTypeModelMap, registeredEventIds, sessionStorage, tests, n, listeners, calls,
                      microtasks>>

NextContext == SetContextAnyKey

SpecContext == Init /\ [][NextContext]_vars

(***************************************************************************)
(* Template replacement.  A catalog item is a tree of values: a string, a  *)
(* number or an object with named fields.  A string is kept as the list of *)
(* its pieces: literal text and placeholders {{name}}.  A replacement map  *)
(* lists its entries in the order Object.keys yields them; an entry is a   *)
(* literal or a function of the model.                                     *)
(***************************************************************************)
Text(v) == [kind |-> "text", v |-> v]
Placeholder(name) == [kind |-> "placeholder", v |-> name]
Str(tokens) == [type |-> "string", tokens |-> tokens]
Num(v) == [type |-> "number", value |-> v]
Obj(fields) == [type |-> "object", fields |-> fields]

Literal(search, value) == [search |-> search, kind |-> "literal", value |-> value]
Function(search) == [search |-> search, kind |-> "function", value |-> "model => model.key"]

\* The replacement functions the application passes return the model's key.
CallReplacement(r, model) == model.key

\* str.replace(new RegExp('{{' + search + '}}', 'g'), value)
ReplaceAll(tokens, search, value) ==
  [i \in DOMAIN tokens |-> IF tokens[i] = Placeholder(search) THEN Text(value) ELSE tokens[i]]

\* The inner forEach over Object.keys(map), for one string property.
RECURSIVE ReplaceInString(_, _, _)
ReplaceInString(model, tokens, map) ==
  IF map = <<>> THEN tokens
  ELSE LET r == Head(map)
           next == IF r.kind = "function" THEN <<Text(CallReplacement(r, model))>>
                   ELSE ReplaceAll(tokens, r.search, r.value)
       IN ReplaceInString(model, next, Tail(map))

\* performReplacements(model, obj, map): the object after the in-place update.
RECURSIVE performReplacements(_, _, _)
performReplacements(model, obj, map) ==
  IF obj.type # "object" THEN obj
  ELSE Obj([prop \in DOMAIN obj.fields |->
              LET v == obj.fields[prop]
              IN IF v.type = "string" THEN Str(ReplaceInString(model, v.tokens, map))
                 ELSE IF v.type = "object" THEN performReplacements(model, v, map)
                 ELSE v])

\* clone(source): a deep copy.
RECURSIVE clone(_)
clone(source) ==
  IF source.type = "object"
    THEN Obj([prop \in DOMAIN source.fields |-> clone(source.fields[prop])])
    ELSE source

\* BaseEventModel.getData(options)
getData(model, options) ==
  LET item == clone(model.item)
  IN IF options.isDefined /\ options.value.replacements.isDefined
       THEN performReplacements(model, item, options.value.replacements.value)
       ELSE item

\* The text of a string, placeholders written out.
RECURSIVE Render(_)
Render(tokens) ==
  IF tokens = <<>> THEN ""
  ELSE (IF Head(tokens).kind = "placeholder" THEN "{{" \o Head(tokens).v \o "}}"
        ELSE Head(tokens).v) \o Render(Tail(tokens))

(***************************************************************************)
(* The template specification: getData is called on a model with an item  *)
(* and options drawn from the inputs below; the call is recorded.          *)
(***************************************************************************)
StringInputs ==
  {<<Text("Hello "), Placeholder("A"), Text(" and "), Placeholder("B")>>,
   <<Placeholder("A")>>,
   <<Text("plain")>>,
   <<Placeholder("A"), Text("-"), Placeholder("A"), Text("-"), Placeholder("UNKNOWN")>>}

TemplateItemInputs ==
  {Obj([id |-> Num(1),
        name |-> Str(name),
        nested |-> Obj([label |-> Str(label),
                        deeper |-> Obj([text |-> Str(<<Placeholder("B"), Text("!")>>)])])]) :
     name \in StringInputs, label \in StringInputs}

ReplacementInputs ==
  {None,
   Some(<<>>),
   Some(<<Literal("A", "x")>>),
   Some(<<Literal("A", "x"), Literal("B", "testTag")>>),
   Some(<<Literal("C", "unused")>>),
   Some(<<Function("A")>>),
   Some(<<Function("A"), Literal("B", "testTag")>>),
   Some(<<Literal("B", "testTag"), Function("A")>>)}

\* model.getData(options) on a model of the key k1
GetData ==
  \E item \in TemplateItemInputs, replacements \in ReplacementInputs, noOptions \in BOOLEAN :
    LET model == [key |-> "k1", item |-> item]
        options == IF noOptions THEN None ELSE Some([replacements |-> replacements])
    IN /\ last' = [op |-> "getData", model |-> model, options |-> options,
                   returned |-> getData(model, options)]
       /\ UNCHANGED <<catalogs, defaultCatalog, publishers, publisherObjs, uniqueId, plugins,
                      eventTypeModelMap, registeredEventIds, sessionStorage, tests, n, listeners, calls,
                      microtasks>>

NextTemplate == GetData

SpecTemplate == Init /\ [][NextTemplate]_vars

(***************************************************************************)
(* The revalidation specification: catalogs are added before and after the *)
(* plugins that map their event types are registered, and their keys are   *)
(* published.                                                              *)
(***************************************************************************)
LateCatalogInputs ==
  {[items |-> items, componentName |-> Some("comp"), componentVersion |-> Some("0.1"),
    catalogVersion |-> None] : items \in {ValidItems, InvalidItems}}
LateCatalogId == "comp:0.1"
LateKeyInputs == {"abc", "cde", "e3"}

AddLateCatalog == AddCatalogOf(LateCatalogInputs)
AddLatePlugin == AddPluginOf({PluginC, PluginD})
PublishLate == PublishFromCatalogOf({LateCatalogId}, LateKeyInputs, {None})

NextRevalidation ==
  \/ AddLateCatalog
  \/ AddLatePlugin
  \/ PublishLate
  \/ RunPublisherTask

SpecRevalidation == Init /\ [][NextRevalidation]_vars

(***************************************************************************)
(* The listener specification: listeners are registered under the global   *)
(* and the product-scoped key, debug mode is switched on and off in        *)
(* session storage, and events are published: a key without accepting      *)
(* publisher (k0), one with (k1), and one that does not resolve.           *)
(***************************************************************************)
GlobalListenerInputs == {"listener2"}
DebugValueInputs == {"true", "TRUE", "false"}

\* addGlobalStratumSnapshotListener(fn)
AddGlobalSnapshotListener ==
  \E fn \in GlobalListenerInputs :
    /\ Len(listeners.global) < MaxListeners
    /\ listeners' = [listeners EXCEPT !.global = Append(@, fn)]
    /\ UNCHANGED <<registry, tests, n, calls, microtasks>>

\* StratumService.addSnapshotListener(fn)
AddScopedSnapshotListener ==
  \E fn \in ListenerInputs :
    /\ Len(listeners.scoped) < MaxListeners
    /\ listeners' = [listeners EXCEPT !.scoped = Append(@, fn)]
    /\ UNCHANGED <<registry, tests, n, calls, microtasks>>

\* sessionStorage.setItem(DEBUG_KEY, value) / sessionStorage.removeItem(DEBUG_KEY)
SetDebugMode ==
  /\ \/ \E value \in DebugValueInputs :
          sessionStorage' = setItem(sessionStorage, DEBUG_KEY, value)
     \/ sessionStorage' = removeItem(sessionStorage, DEBUG_KEY)
  /\ UNCHANGED <<catalogs, defaultCatalog, publishers, publisherObjs, uniqueId, plugins,
                 eventTypeModelMap, registeredEventIds, tests, n, listeners, calls,
                 microtasks, last>>

PublishForListeners == PublishOf({"k0", "k1", "unknownkey"}, {None})

NextListeners ==
  \/ AddGlobalSnapshotListener
  \/ AddScopedSnapshotListener
  \/ SetDebugMode
  \/ PublishForListeners
  \/ RunListeners
  \/ RunPublisherTask

SpecListeners == Init /\ [][NextListeners]_vars

(***************************************************************************)
(* The session specification: Injectors are constructed (each resolves the *)
(* session id) in environments whose storage or random source may fail,    *)
(* and the stored id is cleared or set from outside in between.            *)
(***************************************************************************)
RandomInputs == {"uuid-1", "uuid-2"}
StoredIdInputs == {"abc"}
EnvInputs ==
  [getItemThrows : BOOLEAN, setItemThrows : BOOLEAN, cryptoAvailable : BOOLEAN,
   random : RandomInputs, randomAgain : RandomInputs]

session == <<catalogs, defaultCatalog, publishers, publisherObjs, uniqueId, plugins,
             eventTypeModelMap, registeredEventIds, tests, n, listeners, calls, microtasks>>

\* new Injector(productName, productVersion): stratumSessionId = generateDefaultSessionId()
NewInjector ==
  \E env \in EnvInputs :
    LET r == generateDefaultSessionId(sessionStorage, env)
    IN /\ sessionStorage' = r.storage
       /\ last' = [op |-> "generateDefaultSessionId", env |-> env, returned |-> r.id,
                   before |-> sessionStorage]
       /\ UNCHANGED session

\* sessionStorage.removeItem(STORED_SESSION_ID_KEY), as the tests do between cases
ClearSessionId ==
  /\ sessionStorage' = removeItem(sessionStorage, STORED_SESSION_ID_KEY)
  /\ last' = [op |-> "removeItem"]
  /\ UNCHANGED session

\* sessionStorage.setItem(STORED_SESSION_ID_KEY, 'abc'), as the tests do
StoreSessionId ==
  \E id \in StoredIdInputs :
    /\ sessionStorage' = setItem(sessionStorage, STORED_SESSION_ID_KEY, id)
    /\ last' = [op |-> "setItem"]
    /\ UNCHANGED session

NextSession ==
  \/ NewInjector
  \/ ClearSessionId
  \/ StoreSessionId

SpecSession == Init /\ [][NextSession]_vars

(***************************************************************************)
(* The A/B test specification: tests are started and ended, by id, by      *)
(* wrapper, all at once, and with keys that name no active test.           *)
(***************************************************************************)
MaxStarted == 3
SchemaInputsAb == {"test-ab", "test-cd"}
AbKeyInputs ==
  {StringKey(str) : str \in {generateUniqueKey(i) : i \in 1..MaxStarted}
                            \cup {"unknown", "constructor"}}
    \cup {createTest(data, i) : data \in SchemaInputsAb, i \in 1..(MaxStarted + 1)}

abManagerFrame ==
  <<catalogs, defaultCatalog, publishers, publisherObjs, uniqueId, plugins,
    eventTypeModelMap, registeredEventIds, sessionStorage, listeners, calls, microtasks>>

\* The ids of the tests started and not yet ended, kept beside the manager.
ActiveIds == IF "active" \in DOMAIN last THEN last.active ELSE {}

\* The ids startAbTest has returned so far, in call order, kept beside the
\* manager.
IssuedIds == IF "issued" \in DOMAIN last THEN last.issued ELSE <<>>

\* StratumService.startAbTest(obj)
StartAbTestRecorded ==
  \E obj \in SchemaInputsAb :
    /\ n <= MaxStarted
    /\ LET r == startAbTest(tests, n, obj)
       IN /\ tests' = r.tests
          /\ n' = r.n
          /\ last' = [op |-> "startAbTest", obj |-> obj, returned |-> r.returned,
                      before |-> tests, active |-> ActiveIds \cup {r.returned.id},
                      issued |-> Append(IssuedIds, r.returned.id)]
    /\ UNCHANGED abManagerFrame

\* StratumService.endAbTest(key)
EndAbTestRecorded ==
  \E key \in AbKeyInputs :
    /\ tests' = endAbTest(tests, key)
    /\ last' = [op |-> "endAbTest", key |-> key, before |-> tests,
                active |-> ActiveIds \ {IF isAbTest(key) THEN key.id ELSE key.str},
                issued |-> IssuedIds]
    /\ UNCHANGED <<abManagerFrame, n>>

\* StratumService.endAllAbTests()
EndAllAbTestsRecorded ==
  /\ tests' = endAllAbTests(tests)
  /\ last' = [op |-> "endAllAbTests", before |-> tests, active |-> {},
              issued |-> IssuedIds]
  /\ UNCHANGED <<abManagerFrame, n>>

NextAbTests ==
  \/ StartAbTestRecorded
  \/ EndAbTestRecorded
  \/ EndAllAbTestsRecorded

SpecAbTests == Init /\ [][NextAbTests]_vars

(***************************************************************************)
(* The id specification: tests are started on this service and on another  *)
(* service instance of the process (AbTestManager.n is static: the other   *)
(* manager draws from the same counter and stores in its own collection),  *)
(* ended, and events are published with transient A/B schemas.             *)
(***************************************************************************)
TransientInputs ==
  {Some([abTestSchemas |-> <<[data |-> "transient"], [data |-> "transient2"]>>]),
   Some([abTestSchemas |-> <<createTest("wrapped", 1)>>])}

\* startAbTest(obj) on this service or on another instance
StartAbTestAnywhere ==
  \E obj \in SchemaInputsAb, elsewhere \in BOOLEAN :
    /\ Len(IssuedIds) < MaxStarted
    /\ LET r == startAbTest(tests, n, obj)
       IN /\ tests' = IF elsewhere THEN tests ELSE r.tests
          /\ n' = r.n
          /\ last' = [op |-> "startAbTest", obj |-> obj, returned |-> r.returned,
                      elsewhere |-> elsewhere, before |-> tests,
                      active |-> IF elsewhere THEN ActiveIds
                                 ELSE ActiveIds \cup {r.returned.id},
                      issued |-> Append(IssuedIds, r.returned.id)]
    /\ UNCHANGED abManagerFrame

PublishTransient == PublishOf({"k0"}, TransientInputs)

NextAbIds ==
  \/ StartAbTestAnywhere
  \/ EndAbTestRecorded
  \/ EndAllAbTestsRecorded
  \/ PublishTransient

SpecAbIds == Init /\ [][NextAbIds]_vars

(***************************************************************************)
(* The isolation specification: the consumers of a snapshot and the        *)
(* application change the objects they hold.  A snapshot listener pushes   *)
(* onto the abTestSchemas array of the snapshot it receives; a publisher   *)
(* pushes onto eventOptions.abTestSchemas of the snapshot it was handed    *)
(* (synchronously, in isAvailable); the application assigns a pluginData   *)
(* entry of the options object it passed.  The call record holds the two   *)
(* objects that outlive the call: `snapshot`, the object the listeners     *)
(* receive and the publisher microtasks clone, and `options`, the object   *)
(* the caller passed, which populateDynamicEventOptions copies one level   *)
(* deep (Object.assign), so that the arrays and objects below its first    *)
(* level are the caller's own.                                             *)
(***************************************************************************)
ListenerMark == "mutated by a listener"
PublisherMark == [data |-> "mutated by a publisher"]
ApplicationMark == <<"mutated by", "the application">>

IsolationOptions ==
  {None,
   Some([pluginData |-> PluginDataBoth, abTestSchemas |-> <<[data |-> "transient"]>>])}

PublishIsolated == PublishOf({"k1"}, IsolationOptions)

\* snapshot.abTestSchemas.push(...) in a listener
MutateByListener(snap) == [snap EXCEPT !.abTestSchemas = Append(@, ListenerMark)]

\* The snapshot object after the first k listeners of the forEach ran.
RECURSIVE AfterListeners(_, _, _)
AfterListeners(snap, mutators, k) ==
  IF k = 0 THEN snap
  ELSE LET prev == AfterListeners(snap, mutators, k - 1)
       IN IF k \in mutators THEN MutateByListener(prev) ELSE prev

\* queueMicrotask(() => fns.forEach((fn) => fn(snapshot))), where the
\* listeners in `mutators` change the object they receive
RunListenersMutating ==
  /\ microtasks # <<>>
  /\ Head(microtasks).kind = "listeners"
  /\ \E mutators \in SUBSET DOMAIN calls[Head(microtasks).call].fns :
       LET c == Head(microtasks).call
           snapshot == calls[c].snapshot.value
       IN calls' = [calls EXCEPT
                      ![c].delivered =
                         @ \o [i \in DOMAIN calls[c].fns |->
                                 [listener |-> calls[c].fns[i],
                                  seen |-> View(AfterListeners(snapshot, mutators, i - 1)),
                                  atRun |-> AtCall]],
                      ![c].snapshot =
                         Some(AfterListeners(snapshot, mutators, Len(calls[c].fns)))]
  /\ microtasks' = Tail(microtasks)
  /\ UNCHANGED <<registry, tests, n, listeners>>

\* internalSnapshot.eventOptions.abTestSchemas.push(...) in a publisher: the
\* array is the one of the caller's options object.
MutateByPublisher(options) ==
  IF options.isDefined /\ "abTestSchemas" \in DOMAIN options.value
    THEN Some([options.value EXCEPT !.abTestSchemas = Append(@, PublisherMark)])
    ELSE options

\* The publisher microtask up to its first await, where isAvailable may
\* change the snapshot it was handed.
RunPublisherTaskMutating ==
  /\ microtasks # <<>>
  /\ Head(microtasks).kind = "publisher"
  /\ \E mutates \in BOOLEAN :
       LET c == Head(microtasks).call
           i == Head(microtasks).index
       IN calls' = [calls EXCEPT
                      ![c].tasks[i] = StartTask(calls[c], @),
                      ![c].options = IF mutates THEN MutateByPublisher(@) ELSE @]
  /\ microtasks' = Tail(microtasks)
  /\ UNCHANGED <<registry, tests, n, listeners>>

\* options.pluginData.pluginA = ... by the application, after the call
\* returned its promise
MutateOptions ==
  \E c \in DOMAIN calls :
    /\ calls[c].options.isDefined
    /\ "pluginData" \in DOMAIN calls[c].options.value
    /\ calls[c].options.value.pluginData["pluginA"] # ApplicationMark
    /\ calls' = [calls EXCEPT ![c].options =
                   Some([@.value EXCEPT !.pluginData["pluginA"] = ApplicationMark])]
    /\ UNCHANGED <<registry, tests, n, listeners, microtasks>>

NextIsolation ==
  \/ AddPublisher
  \/ AddGlobalSnapshotListener
  \/ AddScopedSnapshotListener
  \/ PublishIsolated
  \/ RunListenersMutating
  \/ RunPublisherTaskMutating
  \/ MutateOptions

SpecIsolation == Init /\ [][NextIsolation]_vars

(***************************************************************************)
(* The publisher specification: publishers are added (instances new to the *)
(* service and instances it already holds) and removed, by id and by       *)
(* instance, and events are published in between.                          *)
(***************************************************************************)
MaxPublishers == 4
AddPublisherInputs == {"pubA", "pubC"}
RemovePublisherInputs ==
  {NumberKey(v) : v \in {1, MaxPublishers - 1, 999}}
    \cup {InstanceKey(p) : p \in {"pubA", "pubB", "pubG"}}

\* StratumService.addPublisher(model)
AddPublisherAny ==
  \E p \in AddPublisherInputs :
    /\ uniqueId < MaxPublishers
    /\ LET svc == addPublisher([publishers |-> publishers, publisherObjs |-> publisherObjs,
                                uniqueId |-> uniqueId, plugins |-> plugins,
                                eventTypeModelMap |-> eventTypeModelMap], p)
       IN /\ publishers' = svc.publishers
          /\ publisherObjs' = svc.publisherObjs
          /\ uniqueId' = svc.uniqueId
    /\ last' = [op |-> "addPublisher", model |-> p, before |-> publishers]
    /\ UNCHANGED <<catalogs, defaultCatalog, plugins, eventTypeModelMap, registeredEventIds,
                   sessionStorage, tests, n, listeners, calls, microtasks>>

\* StratumService.removePublisher(obj)
RemovePublisher ==
  \E obj \in RemovePublisherInputs :
    /\ publishers' = removePublisher(publishers, publisherObjs, obj)
    /\ last' = [op |-> "removePublisher", obj |-> obj,
                id |-> IF "num" \in DOMAIN obj THEN obj.num ELSE publisherObjs[obj.pub].id,
                before |-> publishers, callsBefore |-> Len(calls)]
    /\ UNCHANGED <<catalogs, defaultCatalog, publisherObjs, uniqueId, plugins,
                   eventTypeModelMap, registeredEventIds, sessionStorage, tests, n,
                   listeners, calls, microtasks>>

\* publish with the history untouched otherwise
PublishAfter ==
  \E key \in {"k1"} :
    /\ Len(calls) < MaxCalls
    /\ publishFromCatalog(IF defaultCatalog.isDefined THEN defaultCatalog.value ELSE "",
                          key, None)
    /\ UNCHANGED <<registry, tests, listeners>>

\* The microtask checkpoint at the end of the synchronous job: every queued
\* publisher microtask runs up to its first await, in queue order.
MicrotaskCheckpoint ==
  /\ microtasks # <<>>
  /\ \A m \in DOMAIN microtasks : microtasks[m].kind = "publisher"
  /\ calls' = [c \in DOMAIN calls |->
                 [calls[c] EXCEPT !.tasks =
                    [i \in DOMAIN calls[c].tasks |->
                       IF \E m \in DOMAIN microtasks :
                            microtasks[m].call = c /\ microtasks[m].index = i
                         THEN StartTask(calls[c], calls[c].tasks[i])
                         ELSE calls[c].tasks[i]]]]
  /\ microtasks' = <<>>
  /\ UNCHANGED <<registry, tests, n, listeners>>

NextPublishers ==
  \/ AddPublisherAny
  \/ RemovePublisher
  \/ PublishAfter
  \/ MicrotaskCheckpoint

SpecPublishers == Init /\ [][NextPublishers]_vars

(***************************************************************************)
(* The in-flight specification: after a publish call has returned its      *)
(* promise and before its publisher microtasks have all run, the           *)
(* application removes catalogs, removes publishers and registers a plugin *)
(* whose publisher pubE accepts the published model.                       *)
(***************************************************************************)
AddAcceptingPlugin == AddPluginOf({PluginC})

NextInFlight ==
  \/ PublishAfter
  \/ RemoveCatalog
  \/ RemovePublisher
  \/ AddAcceptingPlugin
  \/ RunPublisherTask

SpecInFlight == Init /\ [][NextInFlight]_vars

(***************************************************************************)
(* Vocabulary of the properties.                                           *)
(***************************************************************************)
\* The call has a microtask waiting in the queue.
HasMicrotask(c) == \E j \in DOMAIN microtasks : microtasks[j].call = c

\* The microtask of task i of call c is still waiting in the queue.
TaskQueued(c, i) ==
  \E j \in DOMAIN microtasks :
    microtasks[j] = [call |-> c, kind |-> "publisher", index |-> i]

\* Every microtask of the call has run and every promise its publishers
\* returned has settled: nothing further can happen to the call.
Quiescent(c) ==
  /\ ~HasMicrotask(c)
  /\ \A i \in DOMAIN calls[c].tasks :
       calls[c].tasks[i].pc \notin {"queued", "awaitIsAvailable", "awaitPublish"}

\* The call named a catalog registered when it was made, and a key with a
\* valid model in it.
TargetsValidModel(c) ==
  /\ calls[c].catalogId \in DOMAIN calls[c].atCall.catalogs
  /\ calls[c].key \in DOMAIN calls[c].atCall.catalogs[calls[c].catalogId].validModels

\* The model the call targets.
TargetModel(c) == calls[c].atCall.catalogs[calls[c].catalogId].validModels[calls[c].key]

\* The accept-list rule, stated on the publisher as it was when the call was
\* made: no list accepts everything; a list accepts the instances of its
\* classes.
AcceptedAtCall(c, p) ==
  LET accepted == calls[c].atCall.publisherObjs[p].acceptedEventModels
  IN \/ ~accepted.isDefined
     \/ \E i \in DOMAIN accepted.value :
          \/ accepted.value[i] = TargetModel(c).cls
          \/ accepted.value[i] = "BaseEventModel"

\* The registered publishers that accept the call's model.
AcceptingAtCall(c) ==
  {p \in Range(calls[c].atCall.publishers) : AcceptedAtCall(c, p)}

\* A publisher operation of the call threw or rejected.
SomethingThrew(c) ==
  \E i \in DOMAIN calls[c].tasks :
    \/ calls[c].tasks[i].available = "rejected"
    \/ calls[c].tasks[i].output = "threw"
    \/ calls[c].tasks[i].sent = "rejected"

\* No publisher operation was invoked for the call, and no listener.
NothingInvoked(c) ==
  /\ calls[c].delivered = <<>>
  /\ ~HasMicrotask(c)
  /\ \A i \in DOMAIN calls[c].tasks :
       /\ calls[c].tasks[i].isAvailableCalls = 0
       /\ calls[c].tasks[i].getEventOutputCalls = 0
       /\ calls[c].tasks[i].publishCalls = 0

(***************************************************************************)
(* C1.  A publish call that names a catalog id that is not registered, or  *)
(* a key with no valid model in the catalog (unknown, or an entry that     *)
(* failed validation), resolves false: it does not reject, and it invokes  *)
(* no publisher operation and no listener.  publish(key) on a service      *)
(* without default catalog behaves the same.                               *)
(***************************************************************************)
C1_UnknownTargetResolvesFalse ==
  \A c \in DOMAIN calls :
    ~TargetsValidModel(c) => calls[c].result = "false" /\ NothingInvoked(c)

\* The part of C1 the code keeps: the same, for catalog ids that are not a
\* name inherited from Object.prototype.
C1_OwnNameTargetResolvesFalse ==
  \A c \in DOMAIN calls :
    (~TargetsValidModel(c) /\ calls[c].catalogId \notin ObjectPrototypeKeys)
      => calls[c].result = "false" /\ NothingInvoked(c)

\* A call with an unregistered catalog id and one with the key of an entry
\* that failed validation have both resolved false.
C1_Witness ==
  /\ \E c \in DOMAIN calls :
       /\ calls[c].catalogId = "unknowncatalogid"
       /\ calls[c].result = "false"
  /\ \E c \in DOMAIN calls :
       /\ calls[c].catalogId = DefaultCatalogId
       /\ DefaultCatalogId \in DOMAIN catalogs
       /\ calls[c].key = "k3"
       /\ calls[c].result = "false"

(***************************************************************************)
(* C2.  When getEventOutput of an accepting publisher throws, or its       *)
(* publish promise rejects, the publish call resolves false: once nothing  *)
(* of the call is left to run, its result is false (not pending, not a     *)
(* rejection), whatever the other publishers did.                          *)
(***************************************************************************)
C2_ThrowResolvesFalse ==
  \A c \in DOMAIN calls :
    (/\ Quiescent(c)
     /\ \E i \in DOMAIN calls[c].tasks :
          \/ calls[c].tasks[i].output = "threw"
          \/ calls[c].tasks[i].sent = "rejected")
      => calls[c].result = "false"

(***************************************************************************)
(* C3.  Every publish call ends resolved with a boolean: once every        *)
(* microtask of the call has run and every isAvailable and publish promise *)
(* has settled, the call's promise is resolved true or false, neither      *)
(* rejected nor still pending.                                             *)
(***************************************************************************)
C3_AlwaysResolvesBoolean ==
  \A c \in DOMAIN calls :
    Quiescent(c) => calls[c].result \in {"true", "false"}

\* The part of C3 the code keeps: a call that reached the fan-out and whose
\* publishers neither threw nor rejected ends resolved with a boolean.
C3_NoThrowResolvesBoolean ==
  \A c \in DOMAIN calls :
    (Quiescent(c) /\ TargetsValidModel(c) /\ ~SomethingThrew(c))
      => calls[c].result \in {"true", "false"}

(***************************************************************************)
(* C4.  For a call that reached the fan-out and in which nothing threw or  *)
(* rejected: it resolves true exactly when isAvailable of every accepting  *)
(* publisher resolved true; one publisher whose isAvailable resolved false *)
(* makes the call resolve false.                                           *)
(***************************************************************************)
C4_TrueIffAllAvailable ==
  \A c \in DOMAIN calls :
    (TargetsValidModel(c) /\ calls[c].tasks # <<>> /\ ~SomethingThrew(c)) =>
      /\ calls[c].result # "rejected"
      /\ calls[c].result = "true" =>
           \A i \in DOMAIN calls[c].tasks : calls[c].tasks[i].available = "true"
      /\ (\E i \in DOMAIN calls[c].tasks : calls[c].tasks[i].available = "false") =>
           calls[c].result = "false"
      /\ calls[c].result = "false" =>
           \E i \in DOMAIN calls[c].tasks : calls[c].tasks[i].available = "false"
      /\ Quiescent(c) => calls[c].result # "pending"

\* Both cases happened: a call of two publishers resolved true with both
\* available, and a call resolved false with one unavailable and one sent.
C4_Witness ==
  /\ \E c \in DOMAIN calls :
       /\ Len(calls[c].tasks) = 2
       /\ ~SomethingThrew(c)
       /\ calls[c].result = "false"
       /\ \E i, j \in DOMAIN calls[c].tasks :
            /\ calls[c].tasks[i].available = "false"
            /\ calls[c].tasks[j].sent = "resolved"
  /\ \E c \in DOMAIN calls :
       /\ Len(calls[c].tasks) = 2
       /\ calls[c].result = "true"

(***************************************************************************)
(* C5.  A call with a valid key for which no registered publisher accepts  *)
(* the model (no publisher registered included) resolves true, and no      *)
(* isAvailable, getEventOutput or publish is invoked for it.               *)
(***************************************************************************)
C5_NoAcceptingPublisherResolvesTrue ==
  \A c \in DOMAIN calls :
    (TargetsValidModel(c) /\ AcceptingAtCall(c) = {}) =>
      /\ calls[c].result = "true"
      /\ calls[c].tasks = <<>>
      /\ \A j \in DOMAIN microtasks :
           microtasks[j].call = c => microtasks[j].kind # "publisher"

\* A valid key was published while two publishers were registered and neither
\* accepted its model.
C5_Witness ==
  \E c \in DOMAIN calls :
    /\ TargetsValidModel(c)
    /\ Len(calls[c].atCall.publishers) = 2
    /\ AcceptingAtCall(c) = {}
    /\ calls[c].result = "true"

(***************************************************************************)
(* C6.  Every publisher that accepts the call's model gets its own         *)
(* microtask, whatever happens to the others (unavailable, throwing,       *)
(* hanging), and nothing is retried: once its microtask has run isAvailable*)
(* has been invoked exactly once on it, and getEventOutput and publish at  *)
(* most once.                                                              *)
(***************************************************************************)
C6_EachPublisherAttemptedOnce ==
  \A c \in DOMAIN calls :
    TargetsValidModel(c) =>
      /\ \A p \in AcceptingAtCall(c) :
           Cardinality({i \in DOMAIN calls[c].tasks : calls[c].tasks[i].publisher = p}) = 1
      /\ \A i \in DOMAIN calls[c].tasks :
           /\ calls[c].tasks[i].isAvailableCalls = IF TaskQueued(c, i) THEN 0 ELSE 1
           /\ calls[c].tasks[i].getEventOutputCalls <= 1
           /\ calls[c].tasks[i].publishCalls <= 1

\* In one call the first publisher's isAvailable never settled and the second
\* publisher was sent the event; in another the first publisher threw and the
\* second was sent the event.
C6_Witness ==
  /\ \E c \in DOMAIN calls :
       /\ Len(calls[c].tasks) = 2
       /\ calls[c].tasks[1].pc = "awaitIsAvailable"
       /\ calls[c].tasks[2].isAvailableCalls = 1
       /\ calls[c].tasks[2].sent = "resolved"
  /\ \E c \in DOMAIN calls :
       /\ Len(calls[c].tasks) = 2
       /\ calls[c].tasks[1].output = "threw"
       /\ calls[c].tasks[2].isAvailableCalls = 1
       /\ calls[c].tasks[2].sent = "resolved"

(***************************************************************************)
(* C7.  The operations of one publisher in one call are sequential:        *)
(* getEventOutput is invoked only after isAvailable resolved true, publish *)
(* only after getEventOutput returned and with the content it returned;    *)
(* neither is invoked when isAvailable resolved false.                     *)
(***************************************************************************)
C7_SequentialPerPublisher ==
  \A c \in DOMAIN calls :
    \A i \in DOMAIN calls[c].tasks :
      LET task == calls[c].tasks[i]
      IN /\ task.getEventOutputCalls >= 1 =>
              task.isAvailableCalls = 1 /\ task.available = "true"
         /\ task.publishCalls >= 1 =>
              /\ task.getEventOutputCalls = 1
              /\ task.output = "returned"
              /\ task.content.isDefined
              /\ task.published = task.content
         /\ task.available # "true" =>
              task.getEventOutputCalls = 0 /\ task.publishCalls = 0

\* One publisher was sent the content its getEventOutput returned, and one
\* whose isAvailable resolved false was left alone.
C7_Witness ==
  /\ \E c \in DOMAIN calls :
       \E i \in DOMAIN calls[c].tasks :
         /\ calls[c].tasks[i].publishCalls = 1
         /\ calls[c].tasks[i].published = calls[c].tasks[i].content
         /\ calls[c].tasks[i].content.isDefined
  /\ \E c \in DOMAIN calls :
       \E i \in DOMAIN calls[c].tasks :
         /\ calls[c].tasks[i].available = "false"
         /\ calls[c].tasks[i].getEventOutputCalls = 0

(***************************************************************************)
(* C8.  The fan-out holds exactly the registered publishers that accept    *)
(* the model: a publisher whose shouldPublishEvent is false gets no task   *)
(* (none of its operations is invoked) and has no say in the result; a     *)
(* publisher listing a class the model is an instance of is invoked; a     *)
(* publisher without accept-list accepts every model.                      *)
(***************************************************************************)
C8_OnlyAcceptingPublishersFanOut ==
  \A c \in DOMAIN calls :
    TargetsValidModel(c) =>
      /\ Range(calls[c].publishers) = AcceptingAtCall(c)
      /\ \A i \in DOMAIN calls[c].tasks : calls[c].tasks[i].publisher \in AcceptingAtCall(c)
      /\ \A p \in AcceptingAtCall(c) :
           \E i \in DOMAIN calls[c].tasks :
             /\ calls[c].tasks[i].publisher = p
             /\ TaskQueued(c, i) \/ calls[c].tasks[i].isAvailableCalls = 1
      /\ (\A i \in DOMAIN calls[c].tasks :
            calls[c].tasks[i].publisher \in AcceptingAtCall(c) =>
              calls[c].tasks[i].pc = "resolved")
           => calls[c].result = "true"

\* A call of an AModel entry with all three publishers registered: the plugin's
\* publisher and the one without accept-list were invoked and sent the event,
\* the other plugin's publisher got no task, and the call resolved true.
C8_Witness ==
  \E c \in DOMAIN calls :
    /\ TargetsValidModel(c)
    /\ TargetModel(c).cls = "AModel"
    /\ Range(calls[c].atCall.publishers) = {"pubA", "pubB", "pubC"}
    /\ ~calls[c].atCall.publisherObjs["pubC"].acceptedEventModels.isDefined
    /\ {calls[c].tasks[i].publisher : i \in DOMAIN calls[c].tasks} = {"pubA", "pubC"}
    /\ \A i \in DOMAIN calls[c].tasks : calls[c].tasks[i].sent = "resolved"
    /\ calls[c].result = "true"

(***************************************************************************)
(* C9.  The snapshot of a call is point-in-time: the plugin context values *)
(* and the active A/B schemas that the listeners and each publisher's      *)
(* clone read are those of the instant of the call.  A setContext,         *)
(* startAbTest or endAbTest made after the call returned is not observed   *)
(* by that call; the next call observes it.                                *)
(***************************************************************************)
AllContextKeys == ContextKeys \cup {"var2"}

\* The context object generateStratumSnapshot reads for a plugin.
ContextIn(at, nm) ==
  IF at.contexts[nm].isDefined THEN at.contexts[nm].value ELSE EmptyObject

\* The A/B schemas of the call: the active tests' and the call's transient ones.
SchemasIn(at, options) ==
  [i \in DOMAIN at.tests |-> at.tests[i].data]
    \o (IF options.isDefined /\ "abTestSchemas" \in DOMAIN options.value
          THEN [i \in DOMAIN options.value.abTestSchemas |-> options.value.abTestSchemas[i].data]
          ELSE <<>>)

\* What an observer read of a snapshot is what the service held at `at`.
ReadsStateOf(seen, at, options) ==
  /\ \A nm \in DOMAIN seen.plugins :
       \A k \in AllContextKeys : Read(seen.plugins[nm], k) = Read(ContextIn(at, nm), k)
  /\ \A nm \in DOMAIN seen.globalContext :
       \A k \in AllContextKeys :
         Read(seen.globalContext[nm], <<nm, k>>) = Read(ContextIn(at, nm), k)
  /\ seen.abTestSchemas = SchemasIn(at, options)

C9_SnapshotIsPointInTime ==
  \A c \in DOMAIN calls :
    /\ \A d \in DOMAIN calls[c].delivered :
         ReadsStateOf(calls[c].delivered[d].seen, calls[c].atCall, calls[c].options)
    /\ \A i \in DOMAIN calls[c].tasks :
         calls[c].tasks[i].seen.isDefined =>
           ReadsStateOf(calls[c].tasks[i].seen.value, calls[c].atCall, calls[c].options)

\* The context and the A/B tests changed between a call and the run of its
\* microtasks: the listener and the publisher of that call read the old
\* values, and the publisher of the next call read the new ones.
C9_Witness ==
  \E c1, c2 \in DOMAIN calls :
    /\ c1 < c2
    /\ Len(calls[c1].delivered) = 1 /\ Len(calls[c1].tasks) = 1 /\ Len(calls[c2].tasks) = 1
    /\ calls[c1].tasks[1].seen.isDefined /\ calls[c2].tasks[1].seen.isDefined
    /\ LET listenerSaw == calls[c1].delivered[1].seen
           publisherSaw == calls[c1].tasks[1].seen.value
           atRun == calls[c1].tasks[1].atRun.value
           nextSaw == calls[c2].tasks[1].seen.value
       IN /\ ContextIn(atRun, "pluginA").var1 = "123"
          /\ atRun.tests = <<>>
          /\ ContextIn(calls[c1].delivered[1].atRun, "pluginA").var1 = "123"
          /\ listenerSaw.plugins["pluginA"].var1 = "default"
          /\ listenerSaw.abTestSchemas = <<"test-ab">>
          /\ publisherSaw.plugins["pluginA"].var1 = "default"
          /\ publisherSaw.globalContext["pluginA"][<<"pluginA", "var1">>] = "default"
          /\ publisherSaw.abTestSchemas = <<"test-ab">>
          /\ nextSaw.plugins["pluginA"].var1 = "123"
          /\ nextSaw.abTestSchemas = <<>>

(***************************************************************************)
(* C10.  Per-plugin dynamic data is handed out privately: the eventOptions *)
(* a publisher receives hold data = options.pluginData[its plugin's name]  *)
(* when that key is present and no data otherwise, never a pluginData      *)
(* field, and so never the data keyed to another plugin.                   *)
(***************************************************************************)
PluginDataOf(options) ==
  IF options.isDefined /\ "pluginData" \in DOMAIN options.value
    THEN options.value.pluginData ELSE EmptyObject

C10_PluginDataIsPrivate ==
  \A c \in DOMAIN calls :
    \A i \in DOMAIN calls[c].tasks :
      calls[c].tasks[i].seen.isDefined =>
        LET eventOptions == calls[c].tasks[i].seen.value.eventOptions
            pluginName == calls[c].atCall.publisherObjs[calls[c].tasks[i].publisher].pluginName
            pluginData == PluginDataOf(calls[c].options)
        IN /\ "pluginData" \notin DOMAIN eventOptions
           /\ IF pluginName \in DOMAIN pluginData
                THEN "data" \in DOMAIN eventOptions /\ eventOptions.data = pluginData[pluginName]
                ELSE "data" \notin DOMAIN eventOptions
           /\ \A other \in DOMAIN pluginData \ {pluginName} :
                "data" \in DOMAIN eventOptions => eventOptions.data # pluginData[other]

\* A call carried data for both plugins: pluginA's publisher received
\* pluginA's data only and the publisher owned by no plugin received none.
\* Another call carried data for pluginB only: pluginA's publisher received
\* none.
C10_Witness ==
  /\ \E c \in DOMAIN calls :
       /\ PluginDataOf(calls[c].options) = PluginDataBoth
       /\ \E i, j \in DOMAIN calls[c].tasks :
            /\ calls[c].tasks[i].publisher = "pubA"
            /\ calls[c].tasks[i].seen.isDefined
            /\ calls[c].tasks[i].seen.value.eventOptions.data = <<"data for", "pluginA">>
            /\ calls[c].tasks[j].publisher = "pubC"
            /\ calls[c].tasks[j].seen.isDefined
            /\ "data" \notin DOMAIN calls[c].tasks[j].seen.value.eventOptions
  /\ \E c \in DOMAIN calls :
       /\ PluginDataOf(calls[c].options) = PluginDataB
       /\ \E i \in DOMAIN calls[c].tasks :
            /\ calls[c].tasks[i].publisher = "pubA"
            /\ calls[c].tasks[i].seen.isDefined
            /\ "data" \notin DOMAIN calls[c].tasks[i].seen.value.eventOptions


(***************************************************************************)
(* C11: addCatalog whose derived id is the id of a registered catalog      *)
(* returns '' and changes neither the catalogs, nor the registered-id      *)
(* bookkeeping, nor the default catalog; addCatalog whose derived id is    *)
(* not registered returns that non-empty id and adds exactly one catalog,  *)
(* whatever its entries.                                                   *)
(***************************************************************************)
DerivedId(options) == generateCatalogId(options, ProductName, ProductVersion)

Added == last.op = "addCatalog" /\ last.returned # ""
AddedCatalog == catalogs[last.returned]
AddedItems == last.options.items
IsValidEntry(i) == AddedItems[i].key \in DOMAIN AddedCatalog.validModels
IsErrorEntry(i) == AddedItems[i].key \in DOMAIN AddedCatalog.errors
SameId(i, j) == IdKey(AddedItems[i].id) = IdKey(AddedItems[j].id)
HasDuplicateError(i) ==
  /\ IsErrorEntry(i)
  /\ "Duplicate id in catalog" \in Range(AddedCatalog.errors[AddedItems[i].key].errors)
\* The entry passes every check but the duplicate check.
PassesOwnChecks(i) ==
  /\ AddedItems[i].eventType \in DOMAIN last.before.eventTypeModelMap
  /\ ~InvalidId(AddedItems[i].id)
  /\ TypeOfDescription(AddedItems[i].description) = "string"
EarlierValidSameId(i) == \E j \in 1..(i - 1) : IsValidEntry(j) /\ SameId(i, j)

\* The entries i of the added catalog for which the property is stated.
FirstWinsWithinCatalog(entries) ==
  Added =>
    /\ \A i, j \in DOMAIN AddedItems :
         IsValidEntry(i) /\ IsValidEntry(j) /\ i # j => ~SameId(i, j)
    /\ \A i \in entries :
         IF EarlierValidSameId(i)
           THEN ~IsValidEntry(i) /\ HasDuplicateError(i)
           ELSE /\ IsValidEntry(i) <=> PassesOwnChecks(i)
                /\ ~HasDuplicateError(i)

(***************************************************************************)
(* C12: within one catalog the ids of the valid entries are pairwise       *)
(* distinct; of several entries carrying one id the first that validates   *)
(* is valid and every later one is invalid with a duplicate-id error; an   *)
(* entry whose id no earlier valid entry carries is valid exactly when it  *)
(* passes its own checks, and has no duplicate-id error.                   *)
(***************************************************************************)
C12_FirstEntryWinsPerId == FirstWinsWithinCatalog(DOMAIN AddedItems)

\* The same, for the entries whose id is not a name every object inherits.
C12_FirstEntryWinsPerOwnId ==
  FirstWinsWithinCatalog({i \in DOMAIN AddedItems :
                            IdKey(AddedItems[i].id) \notin ObjectPrototypeKeys})

\* A catalog was added in which an entry with an id of its own, passing its
\* own checks, was filed under errors as a duplicate.
C12_Witness ==
  /\ Added
  /\ \E i \in DOMAIN AddedItems :
       /\ PassesOwnChecks(i)
       /\ ~EarlierValidSameId(i)
       /\ HasDuplicateError(i)
  /\ \E i, j \in DOMAIN AddedItems :
       i < j /\ SameId(i, j) /\ IsValidEntry(i) /\ HasDuplicateError(j)


(***************************************************************************)
(* C13: the ids of valid entries are unique across all catalogs of the     *)
(* registry: no id is registered for two catalogs.                         *)
(***************************************************************************)
RegisteredIds(c) ==
  IF c \in DOMAIN registeredEventIds THEN DOMAIN registeredEventIds[c] ELSE {}

C14_RemoveCatalogFrame ==
  last.op = "removeCatalog" =>
    IF last.id \in DOMAIN last.before.catalogs
      THEN /\ DOMAIN catalogs = DOMAIN last.before.catalogs \ {last.id}
           /\ DOMAIN registeredEventIds = DOMAIN last.before.registeredEventIds \ {last.id}
           /\ \A c \in DOMAIN catalogs : catalogs[c] = last.before.catalogs[c]
           /\ \A c \in DOMAIN registeredEventIds :
                registeredEventIds[c] = last.before.registeredEventIds[c]
           /\ defaultCatalog =
                IF last.before.defaultCatalog = Some(last.id) THEN None
                ELSE last.before.defaultCatalog
      ELSE /\ catalogs = last.before.catalogs
           /\ registeredEventIds = last.before.registeredEventIds
           /\ defaultCatalog = last.before.defaultCatalog

\* A catalog with registered ids that is not the default was removed while
\* the default catalog and another catalog with registered ids stayed.
C14_Witness ==
  /\ last.op = "removeCatalog"
  /\ last.id \in DOMAIN last.before.registeredEventIds
  /\ last.id \in DOMAIN last.before.catalogs
  /\ defaultCatalog.isDefined
  /\ DOMAIN registeredEventIds # {}
  /\ Cardinality(DOMAIN catalogs) >= 2

\* The default catalog was removed.
C14_WitnessDefault ==
  /\ last.op = "removeCatalog"
  /\ last.before.defaultCatalog = Some(last.id)
  /\ defaultCatalog = None


C15_WitnessMixed ==
  /\ Added
  /\ DOMAIN AddedCatalog.validModels # {}
  /\ DOMAIN AddedCatalog.errors # {}
  /\ \E c \in DOMAIN catalogs : catalogs[c].isValid


(***************************************************************************)
(* C16: addPlugin with a plugin whose name is falsy or is the name of a    *)
(* registered plugin changes nothing: the plugin map (still holding the    *)
(* plugin registered first), the dispatch table, the publisher list and    *)
(* every publisher object stay as they were, and registerPlugin returns an *)
(* empty publisher list.                                                   *)
(***************************************************************************)
Rejected(plugin, before) == plugin.name = "" \/ plugin.name \in DOMAIN before.plugins

C16_RejectedPluginIsNoOp ==
  last.op = "addPlugin" /\ Rejected(last.plugin, last.before) =>
    /\ last.returned = <<>>
    /\ plugins = last.before.plugins
    /\ eventTypeModelMap = last.before.eventTypeModelMap
    /\ publishers = last.before.publishers
    /\ publisherObjs = last.before.publisherObjs
    /\ uniqueId = last.before.uniqueId

\* A second plugin named pluginA was offered; the first one is still there.
C16_Witness ==
  /\ last.op = "addPlugin"
  /\ last.plugin.name = "pluginA"
  /\ last.plugin # PluginA
  /\ plugins["pluginA"] = PluginA
  /\ "d" \notin DOMAIN eventTypeModelMap
  /\ publisherObjs["pubG"] = NewPublisher
  /\ "pubG" \notin Range(publishers)


(***************************************************************************)
(* C17: first registrant wins for event types.  No call changes or removes *)
(* a mapping the dispatch table holds (the built-in 'base' included); of   *)
(* the mappings a registered plugin declares, those whose type is taken    *)
(* are dropped and the others are added under the plugin's name; every     *)
(* valid catalog entry is an instance of the class the table maps its type *)
(* to.                                                                     *)
(***************************************************************************)
Registered == last.op = "addPlugin" /\ ~Rejected(last.plugin, last.before)

FirstRegistrantWins(declared) ==
  /\ last.op # "constructor" =>
       \A t \in DOMAIN last.before.eventTypeModelMap :
         /\ t \in DOMAIN eventTypeModelMap
         /\ eventTypeModelMap[t] = last.before.eventTypeModelMap[t]
  /\ Registered =>
       \A i \in declared :
         LET e == last.plugin.eventTypes[i]
         IN /\ e.eventType \in DOMAIN eventTypeModelMap
            /\ e.eventType \notin DOMAIN last.before.eventTypeModelMap
                 => eventTypeModelMap[e.eventType]
                      = [pluginName |-> last.plugin.name, model |-> e.model]
  /\ eventTypeModelMap["base"] = [pluginName |-> Undefined, model |-> "BaseEventModel"]
  /\ \A c \in DOMAIN catalogs :
       \A k \in DOMAIN catalogs[c].validModels :
         LET m == catalogs[c].validModels[k]
         IN m.cls = eventTypeModelMap[m.eventType].model

C17_FirstRegistrantWins ==
  FirstRegistrantWins(IF Registered THEN DOMAIN last.plugin.eventTypes ELSE {})

\* The same, for the declared types that are not names every object inherits.
C17_FirstRegistrantWinsOwnTypes ==
  FirstRegistrantWins(IF Registered
                        THEN {i \in DOMAIN last.plugin.eventTypes :
                                last.plugin.eventTypes[i].eventType \notin ObjectPrototypeKeys}
                        ELSE {})

\* A plugin was registered that lost 'a' and 'base' to the first registrants
\* and gained 'c'; its mapping for 'constructor', which nobody registered,
\* is missing too.
C17_Witness ==
  /\ Registered
  /\ last.plugin.name = "pluginC"
  /\ eventTypeModelMap["a"].model = "AModel"
  /\ eventTypeModelMap["c"].pluginName = "pluginC"
  /\ "constructor" \notin DOMAIN last.before.eventTypeModelMap
  /\ "constructor" \notin DOMAIN eventTypeModelMap

\* An entry of type 'a' validated after pluginC declared 'a' as well: it is
\* an AModel.
C17_WitnessInstance ==
  /\ Added
  /\ "pluginC" \in DOMAIN plugins
  /\ \E i \in DOMAIN AddedItems :
       /\ IsValidEntry(i)
       /\ AddedItems[i].eventType = "a"
       /\ AddedCatalog.validModels[AddedItems[i].key].cls = "AModel"


(***************************************************************************)
(* C18: after a successful registerPlugin every publisher of the plugin    *)
(* carries the plugin's name; a publisher constructed without accept-list  *)
(* accepts exactly the model classes of the mappings this plugin added to  *)
(* the dispatch table, in the order declared (none, if it added none); a   *)
(* publisher constructed with an accept-list keeps it.                     *)
(***************************************************************************)
\* The model classes of the mappings the table holds under the plugin's name.
ContributedModels(plugin) ==
  LET kept == SeqFilter(plugin.eventTypes,
                        {e \in Range(plugin.eventTypes) :
                           /\ e.eventType \in DOMAIN eventTypeModelMap
                           /\ eventTypeModelMap[e.eventType].pluginName = plugin.name})
  IN [i \in DOMAIN kept |-> kept[i].model]

C18_PublishersStamped ==
  Registered =>
    \A i \in DOMAIN last.plugin.publishers :
      LET p == last.plugin.publishers[i]
          was == last.before.publisherObjs[p]
      IN /\ publisherObjs[p].pluginName = last.plugin.name
         /\ publisherObjs[p].acceptedEventModels =
              IF was.acceptedEventModels.isDefined THEN was.acceptedEventModels
              ELSE Some(ContributedModels(last.plugin))
         /\ p \in Range(publishers)

\* pluginC was registered: pubD accepts the one class pluginC contributed,
\* pubE kept the list it was constructed with.
C18_Witness ==
  /\ Registered
  /\ last.plugin.name = "pluginC"
  /\ publisherObjs["pubD"].acceptedEventModels = Some(<<"CModel">>)
  /\ publisherObjs["pubE"].acceptedEventModels = Some(<<"AModel">>)
  /\ publisherObjs["pubE"].pluginName = "pluginC"

\* A plugin that contributed no mapping: its publisher accepts nothing.
C18_WitnessEmpty ==
  /\ Registered
  /\ last.plugin.name = "pluginD"
  /\ publisherObjs["pubF"].acceptedEventModels = Some(<<>>)


(***************************************************************************)
(* C19: the key set of a plugin's context is fixed at construction.        *)
(* setContext(key, value) returns true and stores the value only when key  *)
(* is a key of the context (whatever its current value); for any other key *)
(* it returns false and leaves the context unchanged; so every plugin's    *)
(* context has the keys it was constructed with.                           *)
(***************************************************************************)
ContextAfter == plugins[last.pluginName].context

SetContextContract(keys) ==
  last.op = "setContext" /\ last.key \in keys =>
    IF last.before.isDefined /\ last.key \in DOMAIN last.before.value
      THEN /\ last.returned
           /\ DOMAIN ContextAfter.value = DOMAIN last.before.value
           /\ ContextAfter.value[last.key] = last.value
           /\ \A k \in DOMAIN last.before.value \ {last.key} :
                ContextAfter.value[k] = last.before.value[k]
      ELSE /\ ~last.returned
           /\ ContextAfter = last.before

C19_ContextKeysFixed ==
  /\ SetContextContract(AnyKeyInputs)
  /\ \A nm \in DOMAIN plugins :
       /\ plugins[nm].context.isDefined = ConstructedService.plugins[nm].context.isDefined
       /\ plugins[nm].context.isDefined =>
            DOMAIN plugins[nm].context.value
              = DOMAIN ConstructedService.plugins[nm].context.value

\* The same for the keys that are not names every object inherits: a call
\* with such a key keeps the key set it found.
C19_OwnKeysContract == SetContextContract(AnyKeyInputs \ ObjectPrototypeKeys)

\* setContext('constructor', v) returned true and the context has a new key;
\* before that, a declared key whose value was undefined had been set.
C19_Witness ==
  /\ last.op = "setContext"
  /\ last.key = "constructor"
  /\ last.returned
  /\ "constructor" \notin DOMAIN last.before.value
  /\ "constructor" \in DOMAIN ContextAfter.value
  /\ ContextAfter.value["var2"] # Undefined


(***************************************************************************)
(* C20: template replacement in getData(options).  In every string field   *)
(* of the entry, at any depth, each placeholder whose name is a key of the *)
(* replacement map is replaced by the mapped literal or by the value the   *)
(* mapped function returns for the model; every other placeholder and all  *)
(* other text stay as they are.                                            *)
(***************************************************************************)
ReplacementsOf(options) ==
  IF options.isDefined /\ options.value.replacements.isDefined
    THEN options.value.replacements.value ELSE <<>>

\* What the placeholder stands for under the map.
Substitute(model, token, map) ==
  IF token.kind = "placeholder" /\ \E j \in DOMAIN map : map[j].search = token.v
    THEN LET r == map[CHOOSE j \in DOMAIN map : map[j].search = token.v]
         IN Text(IF r.kind = "function" THEN CallReplacement(r, model) ELSE r.value)
    ELSE token

\* Every string field of got is the text of the field of item with its
\* placeholders substituted; other values are equal.
RECURSIVE Substituted(_, _, _, _)
Substituted(model, item, got, map) ==
  IF item.type = "object"
    THEN /\ got.type = "object"
         /\ DOMAIN got.fields = DOMAIN item.fields
         /\ \A prop \in DOMAIN item.fields :
              Substituted(model, item.fields[prop], got.fields[prop], map)
  ELSE IF item.type = "string"
    THEN /\ got.type = "string"
         /\ Render(got.tokens)
              = Render([i \in DOMAIN item.tokens |-> Substitute(model, item.tokens[i], map)])
  ELSE got = item

C20_PlaceholdersReplaced ==
  last.op = "getData" =>
    Substituted(last.model, last.model.item, last.returned, ReplacementsOf(last.options))

\* The same, for replacement maps that hold literals only.
C20_LiteralsReplaced ==
  last.op = "getData"
  /\ (\A j \in DOMAIN ReplacementsOf(last.options) :
        ReplacementsOf(last.options)[j].kind = "literal")
  => Substituted(last.model, last.model.item, last.returned, ReplacementsOf(last.options))

\* A function replacement for A turned a field without any placeholder, and
\* a nested field with text around {{A}}, into the function's value alone.
C20_Witness ==
  /\ last.op = "getData"
  /\ ReplacementsOf(last.options) = <<Function("A")>>
  /\ Render(last.model.item.fields.name.tokens) = "plain"
  /\ Render(last.returned.fields.name.tokens) = "k1"
  /\ Render(last.model.item.fields.nested.fields.label.tokens) = "Hello {{A}} and {{B}}"
  /\ Render(last.returned.fields.nested.fields.label.tokens) = "k1"

\* Literal replacements reached into the nested objects and left the unknown
\* placeholder alone.
C20_WitnessLiteral ==
  /\ last.op = "getData"
  /\ Render(last.returned.fields.name.tokens) = "x-x-{{UNKNOWN}}"
  /\ Render(last.returned.fields.nested.fields.label.tokens) = "Hello x and testTag"
  /\ Render(last.returned.fields.nested.fields.deeper.fields.text.tokens) = "testTag!"


(***************************************************************************)
(* C21: snapshot listeners are retrieved and invoked only in debug mode.   *)
(* A publish call made while debug mode is off retrieves no listener and   *)
(* invokes none, whatever is registered under the global or the            *)
(* product-scoped key.                                                     *)
(***************************************************************************)
C21_ListenersOnlyInDebugMode ==
  \A c \in DOMAIN calls :
    ~calls[c].atCall.debug => calls[c].fns = <<>> /\ calls[c].delivered = <<>>

\* With debug mode off, a call delivered its snapshot to a global and to a
\* product-scoped listener.
C21_Witness ==
  \E c \in DOMAIN calls :
    /\ ~calls[c].atCall.debug
    /\ ~debugModeEnabled(sessionStorage, FALSE)
    /\ Len(calls[c].delivered) = 2
    /\ calls[c].delivered[1].listener \in GlobalListenerInputs
    /\ calls[c].delivered[2].listener \in ListenerInputs

(***************************************************************************)
(* C22: for a call that resolves its target, the retrieved listeners are   *)
(* invoked in one microtask: not during the synchronous call (while the    *)
(* microtask is queued nothing is delivered), exactly once each and with   *)
(* the call's snapshot (once it ran), and before isAvailable of any of the *)
(* call's publishers; a call that fails target resolution retrieves and    *)
(* invokes no listener.                                                    *)
(***************************************************************************)
ListenersQueued(c) ==
  \E m \in DOMAIN microtasks : microtasks[m].kind = "listeners" /\ microtasks[m].call = c

C22_WitnessNoPublisher ==
  \E c \in DOMAIN calls :
    /\ calls[c].outcome = "found"
    /\ calls[c].publishers = <<>>
    /\ calls[c].result = "true"
    /\ calls[c].fns # <<>>
    /\ Len(calls[c].delivered) = Len(calls[c].fns)

\* A call that failed target resolution while listeners were registered.
C22_WitnessMiss ==
  \E c \in DOMAIN calls :
    /\ calls[c].outcome = "miss"
    /\ listeners.global # <<>> /\ listeners.scoped # <<>>
    /\ calls[c].delivered = <<>>

(***************************************************************************)
(* C23: resolving the session id always yields a non-empty id.  A stored   *)
(* id is returned unchanged and storage is not written; with readable,     *)
(* empty storage a generated id is persisted, so that a later resolution   *)
(* returns the same id; when storage access throws a generated id is       *)
(* returned and storage is left as it was; a generated id is the nil UUID  *)
(* when there is no secure random source.                                  *)
(***************************************************************************)
Resolved == last.op = "generateDefaultSessionId"
StoredBefore == ~last.env.getItemThrows /\ last.before[STORED_SESSION_ID_KEY].isDefined
StorageThrew ==
  \/ last.env.getItemThrows
  \/ ~last.before[STORED_SESSION_ID_KEY].isDefined /\ last.env.setItemThrows
Generated(id) == IF last.env.cryptoAvailable THEN id \in RandomInputs ELSE id = NilUuid

C23_WitnessPersisted ==
  /\ Resolved
  /\ ~StoredBefore /\ ~StorageThrew
  /\ last.returned \in RandomInputs
  /\ ~last.before[STORED_SESSION_ID_KEY].isDefined
  /\ sessionStorage[STORED_SESSION_ID_KEY] = Some(last.returned)

\* Storing the generated id threw: the id returned is a second generated one
\* and nothing is persisted.
C23_WitnessThrew ==
  /\ Resolved
  /\ ~last.env.getItemThrows /\ last.env.setItemThrows
  /\ last.returned = last.env.randomAgain
  /\ ~sessionStorage[STORED_SESSION_ID_KEY].isDefined

\* Without secure random source and with failing storage: the nil UUID.
C23_WitnessNil ==
  /\ Resolved
  /\ last.env.getItemThrows /\ ~last.env.cryptoAvailable
  /\ last.returned = NilUuid

(***************************************************************************)
(* C24: the active A/B tests are exactly the tests started and not yet     *)
(* ended.  startAbTest adds exactly one test, under a new id, and returns  *)
(* it; endAbTest, given the id or a wrapper, removes exactly the test with *)
(* that id and nothing when no active test has it; endAllAbTests leaves no *)
(* active test.                                                            *)
(***************************************************************************)
TestIds(ts) == {ts[i].id : i \in DOMAIN ts}
KeyId(key) == IF isAbTest(key) THEN key.id ELSE key.str

C24_ActiveTestsAreStartedNotEnded ==
  /\ TestIds(tests) = ActiveIds
  /\ Cardinality(TestIds(tests)) = Len(tests)
  /\ last.op = "startAbTest" =>
       /\ last.returned.data = last.obj
       /\ last.returned.id \notin TestIds(last.before)
       /\ tests = Append(last.before, last.returned)
  /\ last.op = "endAbTest" =>
       /\ tests = SelectSeq(last.before, LAMBDA t : t.id # KeyId(last.key))
       /\ Len(tests) = Len(last.before)
                         - (IF KeyId(last.key) \in TestIds(last.before) THEN 1 ELSE 0)
  /\ last.op = "endAllAbTests" => tests = <<>>

\* Of three active tests the second was ended, by a wrapper that carries its
\* id and another schema.
C24_Witness ==
  /\ last.op = "endAbTest"
  /\ isAbTest(last.key)
  /\ Len(last.before) = 3
  /\ last.key.id = last.before[2].id
  /\ last.key.data # last.before[2].data
  /\ tests = <<last.before[1], last.before[3]>>

\* The same by the id alone.
C24_WitnessById ==
  /\ last.op = "endAbTest"
  /\ ~isAbTest(last.key)
  /\ Len(last.before) = 2
  /\ last.key.str = last.before[1].id
  /\ tests = <<last.before[2]>>

\* A key that names no active test, while tests are active.
C24_WitnessNoOp ==
  /\ last.op = "endAbTest"
  /\ last.before # <<>>
  /\ KeyId(last.key) \notin TestIds(last.before)
  /\ tests = last.before

\* A test started after others were ended, and all tests ended at once.
C24_WitnessStart ==
  /\ last.op = "startAbTest"
  /\ Len(tests) = 2
  /\ n = MaxStarted + 1

C24_WitnessEndAll ==
  /\ last.op = "endAllAbTests"
  /\ Len(last.before) = 3
  /\ tests = <<>>

(***************************************************************************)
(* C25: removePublisher removes exactly the registered publisher with the  *)
(* given id and keeps the order of the others; the list is unchanged when  *)
(* no registered publisher has the id; and a removed publisher is not      *)
(* invoked by a publish call made after the removal.                       *)
(***************************************************************************)
Removed == last.op = "removePublisher"
IdsOf(pubs) == {publisherObjs[pubs[i]].id : i \in DOMAIN pubs}
Occurrences(pubs, id) == Cardinality({i \in DOMAIN pubs : publisherObjs[pubs[i]].id = id})
CallsAfterRemoval == {c \in DOMAIN calls : c > last.callsBefore}
InvokedIn(c, id) ==
  \E i \in DOMAIN calls[c].tasks : publisherObjs[calls[c].tasks[i].publisher].id = id

C25_RemovedPublisherIsGone ==
  Removed =>
    /\ last.id \notin IdsOf(last.before) => publishers = last.before
    /\ last.id \in IdsOf(last.before) =>
         /\ publishers = SelectSeq(last.before, LAMBDA p : publisherObjs[p].id # last.id)
         /\ Len(publishers) = Len(last.before) - 1
    /\ \A c \in CallsAfterRemoval : ~InvokedIn(c, last.id)

\* The part that holds: the first publisher with the id is removed and the
\* order of the others is kept; when the id was registered once, no publisher
\* with it remains and no later call invokes it.
C25_FirstWithIdRemoved ==
  Removed =>
    /\ last.id \notin IdsOf(last.before) => publishers = last.before
    /\ last.id \in IdsOf(last.before) =>
         LET index == CHOOSE i \in DOMAIN last.before :
                        /\ publisherObjs[last.before[i]].id = last.id
                        /\ \A j \in 1..(i - 1) : publisherObjs[last.before[j]].id # last.id
         IN publishers = SubSeq(last.before, 1, index - 1)
                           \o SubSeq(last.before, index + 1, Len(last.before))
    /\ Occurrences(last.before, last.id) <= 1 =>
         /\ last.id \notin IdsOf(publishers)
         /\ \A c \in CallsAfterRemoval : ~InvokedIn(c, last.id)

\* An instance added twice was removed and a call made afterwards invoked it.
C25_Witness ==
  /\ Removed
  /\ Occurrences(last.before, last.id) = 2
  /\ \E c \in CallsAfterRemoval :
       \E i \in DOMAIN calls[c].tasks :
         /\ publisherObjs[calls[c].tasks[i].publisher].id = last.id
         /\ calls[c].tasks[i].isAvailableCalls = 1

\* The middle one of three publishers was removed, by instance; a call made
\* afterwards invoked the others and not it.
C25_WitnessRemoved ==
  /\ Removed
  /\ "pub" \in DOMAIN last.obj
  /\ Len(last.before) = 3 /\ Occurrences(last.before, last.id) = 1
  /\ publisherObjs[last.before[2]].id = last.id
  /\ publishers = <<last.before[1], last.before[3]>>
  /\ \E c \in CallsAfterRemoval :
       /\ calls[c].tasks # <<>>
       /\ \A i \in DOMAIN calls[c].tasks : calls[c].tasks[i].isAvailableCalls = 1

(***************************************************************************)
(* C26: aggregation waits for all scheduled tasks.  The promise of a call  *)
(* is not resolved while the task of one of its accepting publishers is    *)
(* still queued or awaiting isAvailable or publish; in particular the call *)
(* does not resolve false on an unavailable publisher before the other     *)
(* tasks have settled.                                                     *)
(***************************************************************************)
TaskPending(task) == task.pc \in {"queued", "awaitIsAvailable", "awaitPublish"}

C26_ResolvedOnlyWhenAllSettled ==
  \A c \in DOMAIN calls :
    calls[c].outcome = "found" /\ calls[c].result \in {"true", "false"} =>
      \A i \in DOMAIN calls[c].tasks : ~TaskPending(calls[c].tasks[i])

\* What holds: a call resolved true has no pending task.
C26_TrueOnlyWhenAllSettled ==
  \A c \in DOMAIN calls :
    calls[c].outcome = "found" /\ calls[c].result = "true" =>
      \A i \in DOMAIN calls[c].tasks : ~TaskPending(calls[c].tasks[i])

\* A call resolved false on an unavailable publisher while another of its
\* publishers is awaiting publish, and one while another awaits isAvailable.
C26_Witness ==
  \E c \in DOMAIN calls :
    /\ calls[c].result = "false"
    /\ \E i, j \in DOMAIN calls[c].tasks :
         /\ calls[c].tasks[i].pc = "rejected"
         /\ calls[c].tasks[j].pc = "awaitPublish"

C26_WitnessIsAvailable ==
  \E c \in DOMAIN calls :
    /\ calls[c].result = "false"
    /\ \E i, j \in DOMAIN calls[c].tasks :
         /\ calls[c].tasks[i].pc = "rejected"
         /\ calls[c].tasks[j].pc = "awaitIsAvailable"

(***************************************************************************)
(* C27: in every state reached by addCatalog and removeCatalog, the        *)
(* registered-id record of every registered catalog holds exactly the ids  *)
(* of the catalog's valid models, and no record exists for a catalog id    *)
(* that is not registered.                                                 *)
(***************************************************************************)
\* The property key of the id a model carries (a number or a string).
NumberIdInputs == {-1, 0, 1, 2, 3, 5, 7, 8, 1000}
ModelIdKey(v) ==
  IF ToString(v) \in {ToString(i) : i \in NumberIdInputs} THEN ToString(v) ELSE v
ValidModelIds(c) ==
  {ModelIdKey(catalogs[c].validModels[k].id) : k \in DOMAIN catalogs[c].validModels}

C27_RegisteredIdsAreValidModelIds ==
  /\ \A c \in DOMAIN catalogs : RegisteredIds(c) = ValidModelIds(c)
  /\ \A c \in DOMAIN registeredEventIds : c \in DOMAIN catalogs

\* After a catalog with registered ids was removed, a catalog with several
\* valid models (numeric and string ids) and rejected entries is registered
\* next to a catalog without any valid model.
C27_Witness ==
  /\ last.op = "removeCatalog"
  /\ last.id \in DOMAIN last.before.registeredEventIds
  /\ last.id \notin DOMAIN registeredEventIds
  /\ \E c \in DOMAIN catalogs :
       /\ {"1", "2", "abc"} \subseteq RegisteredIds(c)
       /\ DOMAIN catalogs[c].errors # {}
  /\ \E c \in DOMAIN catalogs :
       /\ DOMAIN catalogs[c].validModels = {}
       /\ c \notin DOMAIN registeredEventIds

C28_IdRegisteredOnlyWhenValid ==
  Added =>
    /\ RegisteredIds(last.returned) =
         {IdKey(AddedItems[i].id) : i \in {j \in DOMAIN AddedItems : IsValidEntry(j)}}
    /\ \A i \in DOMAIN AddedItems :
         /\ PassesOwnChecks(i)
         /\ IdKey(AddedItems[i].id) \notin ObjectPrototypeKeys
         /\ ~EarlierValidSameId(i)
         => IsValidEntry(i)

\* An entry is valid although an earlier entry of its catalog, rejected for
\* its description, carries its id; and one after an entry rejected for want
\* of a model class.
C28_Witness ==
  /\ Added
  /\ \E i \in DOMAIN AddedItems :
       /\ IsValidEntry(i)
       /\ \E j \in 1..(i - 1) :
            /\ SameId(i, j)
            /\ IsErrorEntry(j)
            /\ AddedItems[j].eventType \in DOMAIN last.before.eventTypeModelMap

C28_WitnessNoModelClass ==
  /\ Added
  /\ \E i \in DOMAIN AddedItems :
       /\ IsValidEntry(i)
       /\ \E j \in 1..(i - 1) :
            /\ SameId(i, j)
            /\ IsErrorEntry(j)
            /\ AddedItems[j].eventType \notin DOMAIN last.before.eventTypeModelMap

(***************************************************************************)
(* C29: an entry whose eventType has no mapping in the dispatch table when *)
(* its catalog is added is invalid, and validity is never recomputed: an   *)
(* addPlugin call leaves validModels and errors of every registered        *)
(* catalog unchanged, also when the plugin maps the eventType, so a        *)
(* publish of the entry's key resolves false.                              *)
(***************************************************************************)
NoModelClass(c, key) ==
  /\ key \in DOMAIN catalogs[c].errors
  /\ "No model class for the event type" \in Range(catalogs[c].errors[key].errors)

C29_ValidityFixedAtRegistration ==
  /\ Added =>
       \A i \in DOMAIN AddedItems :
         AddedItems[i].eventType \notin DOMAIN last.before.eventTypeModelMap
           => IsErrorEntry(i) /\ ~IsValidEntry(i) /\ NoModelClass(last.returned, AddedItems[i].key)
  /\ last.op = "addPlugin" => catalogs = last.before.catalogs
  /\ \A c \in DOMAIN calls :
       LET at == calls[c].atCall.catalogs
           id == calls[c].catalogId
       IN id \in DOMAIN at /\ calls[c].key \in DOMAIN at[id].errors
            => calls[c].result = "false" /\ calls[c].tasks = <<>>

\* The key of an entry of type 'c' was published after a plugin that maps 'c'
\* was registered; its catalog had been added before, and the call resolved
\* false.
C29_Witness ==
  /\ "c" \in DOMAIN eventTypeModelMap
  /\ \E c \in DOMAIN calls :
       /\ calls[c].key = "cde"
       /\ "pubD" \in Range(calls[c].atCall.publishers)
       /\ calls[c].catalogId \in DOMAIN catalogs
       /\ NoModelClass(calls[c].catalogId, "cde")
       /\ calls[c].result = "false"

\* The same entry in a catalog added after the plugin was registered is
\* valid, and its key is published.
C29_WitnessAfterPlugin ==
  \E c \in DOMAIN calls :
    /\ calls[c].key = "cde"
    /\ calls[c].outcome = "found"

(***************************************************************************)
(* C30: under the base validation rules an entry whose description is      *)
(* missing, is not a string or is the empty string is invalid: it is filed *)
(* under the catalog's errors and is not among the valid models that can   *)
(* be published.  Only a non-empty string passes.                          *)
(***************************************************************************)
HasDescriptionError(i) ==
  /\ IsErrorEntry(i)
  /\ "An invalid description was provided"
       \in Range(AddedCatalog.errors[AddedItems[i].key].errors)
NonEmptyString(description) ==
  TypeOfDescription(description) = "string" /\ description # ""

C30_DescriptionNonEmptyString ==
  Added =>
    \A i \in DOMAIN AddedItems :
      AddedItems[i].eventType \in DOMAIN last.before.eventTypeModelMap =>
        (HasDescriptionError(i) <=> ~NonEmptyString(AddedItems[i].description))

\* The part that holds: a description that is missing or not a string is
\* rejected; every string passes the rule, the empty one included.
C30_DescriptionIsString ==
  Added =>
    \A i \in DOMAIN AddedItems :
      AddedItems[i].eventType \in DOMAIN last.before.eventTypeModelMap =>
        /\ HasDescriptionError(i) <=> TypeOfDescription(AddedItems[i].description) # "string"
        /\ HasDescriptionError(i) => ~IsValidEntry(i)

\* An entry with the empty string as description is a valid model, next to
\* entries rejected for a missing and for a non-string description.
C30_Witness ==
  /\ Added
  /\ \E i, j, k \in DOMAIN AddedItems :
       /\ AddedItems[i].description = "" /\ IsValidEntry(i)
       /\ AddedItems[i].key \in DOMAIN catalogs[last.returned].validModels
       /\ AddedItems[j].description = Undefined /\ HasDescriptionError(j)
       /\ AddedItems[k].description = NumberDescription /\ HasDescriptionError(k)

(***************************************************************************)
(* C31: the ids startAbTest returns are pairwise distinct and strictly     *)
(* increasing in call order: an id is not reused after endAbTest or        *)
(* endAllAbTests, nor by another service instance, nor after publish calls *)
(* that carried transient A/B schemas.                                     *)
(***************************************************************************)
\* The counter value an id was generated from.
IdNumber(id) ==
  CHOOSE i \in 0..(MaxStarted + 2 * MaxCalls + 1) : generateUniqueKey(i) = id

C31_IdsDistinctAndIncreasing ==
  /\ \A i, j \in DOMAIN IssuedIds :
       i < j => IssuedIds[i] # IssuedIds[j] /\ IdNumber(IssuedIds[i]) < IdNumber(IssuedIds[j])
  /\ \A i \in DOMAIN IssuedIds : IdNumber(IssuedIds[i]) < n
  /\ \A i \in DOMAIN tests : tests[i].id \in Range(IssuedIds)

\* Three ids were issued, on this service and on another instance, with
\* tests ended and transient schemas published in between: the ids skip the
\* numbers the transient schemas consumed.
C31_Witness ==
  /\ Len(IssuedIds) = 3
  /\ last.op = "startAbTest" /\ ~last.elsewhere
  /\ Len(tests) = 1
  /\ IdNumber(IssuedIds[3]) > IdNumber(IssuedIds[2]) + 1
  /\ IdNumber(IssuedIds[2]) > IdNumber(IssuedIds[1]) + 1
  /\ calls # <<>>

(***************************************************************************)
(* C32: generateContexts(transient) returns the schema of every active     *)
(* test followed by the schema of each transient test of the call, and     *)
(* leaves the active tests as they are: a transient schema appears in the  *)
(* snapshot of the call it was passed to and in no later call's snapshot.  *)
(***************************************************************************)
SchemasOf(ts) == [i \in DOMAIN ts |-> ts[i].data]
TransientOf(options) ==
  IF options.isDefined /\ "abTestSchemas" \in DOMAIN options.value
    THEN options.value.abTestSchemas ELSE <<>>

C32_TransientSchemasThisCallOnly ==
  /\ \A c \in DOMAIN calls :
       calls[c].outcome = "found" =>
         calls[c].snapshot.value.abTestSchemas
           = SchemasOf(calls[c].atCall.tests) \o SchemasOf(TransientOf(calls[c].options))
  /\ TestIds(tests) = ActiveIds
  /\ \A i \in DOMAIN tests :
       tests[i].data \in SchemaInputsAb /\ tests[i].data \notin {"transient", "transient2", "wrapped"}

\* Two calls while a test is active: the first carried two bare transient
\* schemas, the second a wrapped one; the second snapshot holds the active
\* schema and its own transient schema only.
C32_Witness ==
  /\ Len(calls) = 2
  /\ calls[1].outcome = "found" /\ calls[2].outcome = "found"
  /\ Len(TransientOf(calls[1].options)) = 2
  /\ Len(TransientOf(calls[2].options)) = 1
  /\ calls[1].atCall.tests # <<>>
  /\ calls[2].atCall.tests = calls[1].atCall.tests
  /\ tests = calls[1].atCall.tests
  /\ "transient" \in Range(calls[1].snapshot.value.abTestSchemas)
  /\ "transient" \notin Range(calls[2].snapshot.value.abTestSchemas)
  /\ Len(calls[2].snapshot.value.abTestSchemas) = Len(tests) + 1

(***************************************************************************)
(* C33: within one publish call, no change a publisher makes to the        *)
(* snapshot it was handed, any part of its eventOptions included, is       *)
(* observable in the snapshot handed to another publisher of the call.     *)
(***************************************************************************)
Started(task) == task.seen.isDefined
EventOptionSchemas(seen) ==
  IF "abTestSchemas" \in DOMAIN seen.eventOptions THEN seen.eventOptions.abTestSchemas ELSE <<>>

C33_PublisherMutationNotObservable ==
  \A c \in DOMAIN calls : \A i \in DOMAIN calls[c].tasks :
    Started(calls[c].tasks[i]) =>
      PublisherMark \notin Range(EventOptionSchemas(calls[c].tasks[i].seen.value))

\* The second publisher of a call was handed eventOptions whose
\* abTestSchemas hold what the first publisher pushed.
C33_Witness ==
  \E c \in DOMAIN calls :
    /\ Len(calls[c].tasks) = 2
    /\ Started(calls[c].tasks[1]) /\ Started(calls[c].tasks[2])
    /\ PublisherMark \notin Range(EventOptionSchemas(calls[c].tasks[1].seen.value))
    /\ PublisherMark \in Range(EventOptionSchemas(calls[c].tasks[2].seen.value))

\* What is private to each publisher: the snapshot outside eventOptions and
\* the first level of eventOptions (its own `data`, no pluginData).
C33_CloneAndFirstLevelPrivate ==
  \A c \in DOMAIN calls : \A i \in DOMAIN calls[c].tasks :
    Started(calls[c].tasks[i]) =>
      LET seen == calls[c].tasks[i].seen.value
          pub == calls[c].atCall.publisherObjs[calls[c].tasks[i].publisher]
      IN /\ PublisherMark.data \notin Range(seen.abTestSchemas)
         /\ "pluginData" \notin DOMAIN seen.eventOptions
         /\ "data" \in DOMAIN seen.eventOptions =>
              seen.eventOptions.data \in {<<"data for", pub.pluginName>>, ApplicationMark}

(***************************************************************************)
(* C34: the snapshot is not shared by reference between consumers: what a  *)
(* snapshot listener changes in the snapshot it receives is observable     *)
(* neither by a publisher of the same call nor by another listener of it.  *)
(***************************************************************************)
C34_ListenerMutationNotObservable ==
  \A c \in DOMAIN calls :
    /\ \A d \in DOMAIN calls[c].delivered :
         ListenerMark \notin Range(calls[c].delivered[d].seen.abTestSchemas)
    /\ \A i \in DOMAIN calls[c].tasks :
         Started(calls[c].tasks[i]) =>
           ListenerMark \notin Range(calls[c].tasks[i].seen.value.abTestSchemas)

\* The second listener and a publisher of the call read what the first
\* listener pushed.
C34_Witness ==
  \E c \in DOMAIN calls :
    /\ Len(calls[c].delivered) = 2
    /\ ListenerMark \notin Range(calls[c].delivered[1].seen.abTestSchemas)
    /\ ListenerMark \in Range(calls[c].delivered[2].seen.abTestSchemas)
    /\ \E i \in DOMAIN calls[c].tasks :
         /\ Started(calls[c].tasks[i])
         /\ ListenerMark \in Range(calls[c].tasks[i].seen.value.abTestSchemas)

(***************************************************************************)
(* C35: the eventOptions a publisher observes are those of the options     *)
(* object as it was when publish was called: what the application changes  *)
(* in the options after the call returned and before the publisher's task  *)
(* runs is not observed by any publisher of the call.                      *)
(***************************************************************************)
C35_OptionsAsAtCall ==
  \A c \in DOMAIN calls : \A i \in DOMAIN calls[c].tasks :
    Started(calls[c].tasks[i]) =>
      LET seen == calls[c].tasks[i].seen.value
      IN "data" \in DOMAIN seen.eventOptions => seen.eventOptions.data # ApplicationMark

\* The publisher of pluginA was handed the data the application assigned
\* after the call, while the snapshot of the call holds the data passed.
C35_Witness ==
  \E c \in DOMAIN calls : \E i \in DOMAIN calls[c].tasks :
    /\ Started(calls[c].tasks[i])
    /\ "data" \in DOMAIN calls[c].tasks[i].seen.value.eventOptions
    /\ calls[c].tasks[i].seen.value.eventOptions.data = ApplicationMark
    /\ calls[c].snapshot.value.eventOptions.value.pluginData["pluginA"] = <<"data for", "pluginA">>

(***************************************************************************)
(* C36: an in-flight publish call is unaffected by later registry changes: *)
(* removeCatalog of its catalog, removePublisher of one of its publishers  *)
(* or addPlugin of a new accepting publisher, made after the call returned *)
(* its promise, change neither the publishers the call invokes, which are  *)
(* exactly those registered and accepting at call time, nor the catalog    *)
(* data in its snapshot.                                                   *)
(***************************************************************************)
C36_InFlightCallUnaffected ==
  \A c \in DOMAIN calls :
    calls[c].outcome = "found" =>
      /\ calls[c].publishers = SeqFilter(calls[c].atCall.publishers, AcceptingAtCall(c))
      /\ DOMAIN calls[c].tasks = DOMAIN calls[c].publishers
      /\ \A i \in DOMAIN calls[c].tasks :
           /\ calls[c].tasks[i].publisher = calls[c].publishers[i]
           /\ calls[c].tasks[i].isAvailableCalls = IF TaskQueued(c, i) THEN 0 ELSE 1
           /\ ~TaskQueued(c, i) => Started(calls[c].tasks[i])
      /\ calls[c].snapshot.value.catalog.id = calls[c].catalogId
      /\ calls[c].snapshot.value.event
           = [eventType |-> TargetModel(c).eventType, id |-> TargetModel(c).id]

\* A call whose publisher ran after the call's catalog and the publisher
\* itself had been removed and an accepting publisher had been registered.
C36_Witness ==
  \E c \in DOMAIN calls : \E i \in DOMAIN calls[c].tasks :
    /\ Started(calls[c].tasks[i])
    /\ calls[c].catalogId \notin DOMAIN calls[c].tasks[i].atRun.value.catalogs
    /\ calls[c].tasks[i].publisher \notin Range(calls[c].tasks[i].atRun.value.publishers)
    /\ "pubE" \in Range(calls[c].tasks[i].atRun.value.publishers)
    /\ "pubE" \notin Range(calls[c].atCall.publishers)
    /\ "pubE" \notin Range(calls[c].publishers)
    /\ ~HasMicrotask(c)

(***************************************************************************)
(* C37: whenever the default-catalog reference is set, the catalog         *)
(* registered under its id is that catalog; the reference is assigned by   *)
(* the constructor only, so after removeCatalog of the default catalog     *)
(* every later publish(key) resolves false, also when a catalog deriving   *)
(* the same id has been added again.                                       *)
(***************************************************************************)
\* publish(key) found no default catalog: it passed the empty catalog id.
WithoutDefault(c) == calls[c].catalogId = ""

C37_DefaultCatalogOnlyFromConstructor ==
  /\ defaultCatalog.isDefined =>
       /\ defaultCatalog.value = DefaultCatalogId
       /\ defaultCatalog.value \in DOMAIN catalogs
       /\ catalogs[defaultCatalog.value] = DefaultCatalog
       /\ \A c \in DOMAIN calls : ~WithoutDefault(c)
  /\ \A c \in DOMAIN calls :
       /\ WithoutDefault(c) => calls[c].outcome = "miss" /\ calls[c].result = "false"
       /\ ~WithoutDefault(c) =>
            /\ calls[c].catalogId = DefaultCatalogId
            /\ calls[c].atCall.catalogs[DefaultCatalogId] = DefaultCatalog
            /\ calls[c].outcome = "found"
  /\ "" \notin DOMAIN catalogs

\* The default catalog was removed after a first publish had found it, a
\* catalog of the same id holding k1 was added again, and a second publish
\* of k1 resolved false.
C37_Witness ==
  /\ Len(calls) = 2
  /\ ~WithoutDefault(1) /\ calls[1].outcome = "found"
  /\ WithoutDefault(2) /\ calls[2].result = "false" /\ calls[2].key = "k1"
  /\ DefaultCatalogId \in DOMAIN calls[2].atCall.catalogs
  /\ "k1" \in DOMAIN calls[2].atCall.catalogs[DefaultCatalogId].validModels
  /\ ~defaultCatalog.isDefined

(***************************************************************************)
(* C38: addPlugin invokes the onRegister hook exactly once for each plugin *)
(* that is registered, after its publishers have been added to the         *)
(* service, and never for a plugin whose registration was rejected because *)
(* its name is falsy or already registered.                                *)
(***************************************************************************)
AddedPlugins == last.op = "addPlugins"

\* The service as the i-th plugin of the list found it.
ServiceBefore(i) == addPlugin(last.before, SubSeq(last.pluginList, 1, i - 1))

\* registerPlugin stored the i-th plugin of the list.
RegisteredAt(i) ==
  registerPlugin(ServiceBefore(i), last.pluginList[i]).svc.plugins # ServiceBefore(i).plugins

HooksOf(i) == {h \in DOMAIN last.hooks : last.hooks[h].index = i}

C38_OnRegisterOnlyWhenRegistered ==
  AddedPlugins =>
    \A i \in DOMAIN last.pluginList :
      /\ RegisteredAt(i) =>
           /\ Cardinality(HooksOf(i)) = 1
           /\ \A h \in HooksOf(i) :
                Range(last.pluginList[i].publishers) \subseteq Range(last.hooks[h].publishersAtHook)
      /\ ~RegisteredAt(i) => HooksOf(i) = {}

\* What holds: one hook per plugin of the list, in list order, each after the
\* publishers registerPlugin returned for it were added.
C38_OnRegisterOncePerListedPlugin ==
  AddedPlugins =>
    /\ Len(last.hooks) = Len(last.pluginList)
    /\ \A i \in DOMAIN last.pluginList :
         /\ last.hooks[i].index = i
         /\ last.hooks[i].plugin = last.pluginList[i].name
         /\ last.hooks[i].publishersAtHook = addPlugin(last.before, SubSeq(last.pluginList, 1, i)).publishers
         /\ RegisteredAt(i) =>
              Range(last.pluginList[i].publishers) \subseteq Range(last.hooks[i].publishersAtHook)

\* addPlugin([PluginD, PluginD]) on a service without pluginD: the first is
\* registered, the second rejected, and the hook ran for both.
C38_Witness ==
  /\ AddedPlugins
  /\ Len(last.pluginList) = 2
  /\ RegisteredAt(1) /\ ~RegisteredAt(2)
  /\ last.pluginList[1] = last.pluginList[2]
  /\ HooksOf(1) # {} /\ HooksOf(2) # {}
  /\ publishers = Append(last.before.publishers, "pubF")

(***************************************************************************)
(* C39: a publish call, with all of its listener and publisher microtasks, *)
(* leaves the long-lived registry state unchanged: the catalogs with their *)
(* valid models and errors, the registered-id records, the plugin map, the *)
(* event-type dispatch table, the publisher list, the session id and the   *)
(* active A/B tests are after the call what they were before it.           *)
(***************************************************************************)
\* The step belongs to a publish call: the call itself, one of its
\* microtasks or one of its continuations.
PublishStep == calls' # calls \/ microtasks' # microtasks

C39_PublishLeavesRegistryUnchanged ==
  [][PublishStep =>
       UNCHANGED <<catalogs, defaultCatalog, registeredEventIds, plugins,
                   eventTypeModelMap, publishers, publisherObjs, uniqueId,
                   sessionStorage, tests>>]_vars

\* A call with a transient A/B schema has completed: its listener was
\* delivered, its publisher went through isAvailable, getEventOutput and
\* publish, the promise resolved true; the id counter advanced and no test
\* is active.
C39_Witness ==
  \E c \in DOMAIN calls :
    /\ calls[c].outcome = "found"
    /\ Quiescent(c)
    /\ calls[c].delivered # <<>>
    /\ calls[c].tasks # <<>>
    /\ calls[c].result = "true"
    /\ TransientOf(calls[c].options) # <<>>
    /\ n > 1 /\ tests = <<>>
    /\ calls[c].atCall.catalogs = catalogs
    /\ calls[c].atCall.publishers = publishers

(***************************************************************************)
(* C40: replacement touches placeholders only: getData(options) leaves     *)
(* unchanged every string field of the entry that contains no placeholder  *)
(* named in the replacement map, whether the mapped values are literals or *)
(* functions; a function-valued replacement does not alter fields that do  *)
(* not contain its placeholder.                                            *)
(***************************************************************************)
\* The string holds a placeholder whose name is a key of the map.
HasMappedPlaceholder(tokens, map) ==
  \E i \in DOMAIN tokens : \E j \in DOMAIN map :
    tokens[i] = Placeholder(map[j].search)

\* Every string field of item without a mapped placeholder is the same in
\* got, at every depth.
RECURSIVE UntouchedKept(_, _, _)
UntouchedKept(item, got, map) ==
  IF item.type = "object"
    THEN /\ got.type = "object"
         /\ DOMAIN got.fields = DOMAIN item.fields
         /\ \A prop \in DOMAIN item.fields :
              UntouchedKept(item.fields[prop], got.fields[prop], map)
  ELSE IF item.type = "string"
    THEN HasMappedPlaceholder(item.tokens, map) \/ got = item
  ELSE TRUE

C40_FieldsWithoutPlaceholderUnchanged ==
  last.op = "getData" =>
    UntouchedKept(last.model.item, last.returned, ReplacementsOf(last.options))

\* The part that holds: under a map of literals, the fields without a mapped
\* placeholder are unchanged.
C40_LiteralsLeaveOtherFields ==
  last.op = "getData"
  /\ (\A j \in DOMAIN ReplacementsOf(last.options) :
        ReplacementsOf(last.options)[j].kind = "literal")
  => UntouchedKept(last.model.item, last.returned, ReplacementsOf(last.options))

\* Under { B: 'testTag', A: model => model.key } the field 'plain', which
\* holds no placeholder at all, and the nested field '{{B}}!', which does not
\* hold {{A}}, both became the function's value.
C40_Witness ==
  /\ last.op = "getData"
  /\ ReplacementsOf(last.options) = <<Literal("B", "testTag"), Function("A")>>
  /\ ~HasMappedPlaceholder(last.model.item.fields.name.tokens, ReplacementsOf(last.options))
  /\ Render(last.model.item.fields.name.tokens) = "plain"
  /\ Render(last.returned.fields.name.tokens) = "k1"
  /\ Render(last.returned.fields.nested.fields.deeper.fields.text.tokens) = "k1"

\* Under { C: 'unused' } no field holds the mapped placeholder and the whole
\* entry comes back as it is.
C40_WitnessLiteral ==
  /\ last.op = "getData"
  /\ ReplacementsOf(last.options) = <<Literal("C", "unused")>>
  /\ last.returned = last.model.item
  /\ Render(last.returned.fields.nested.fields.label.tokens) = "Hello {{A}} and {{B}}"

====
